---- MODULE Spec2Model ----
(***************************************************************************)
(* A model of Saga, a command-line editor and renderer of timeline         *)
(* documents: the Node/Event tree (events.rs), the edit command language   *)
(* (edit.rs) and the document wrapper with its renderer (saga.rs).         *)
(*                                                                         *)
(* Conventions.                                                            *)
(*   - A Rust String / &str is a sequence of one-character strings.        *)
(*   - Option<T> is a sequence of length at most one: None is <<>> and     *)
(*     Some(x) is <<x>>.  Option<Option<f64>> nests accordingly.           *)
(*   - An f64 is an exact rational <<n, d>> in lowest terms with d > 0;    *)
(*     the values drawn are small, so no rounding is involved.             *)
(*   - A NaiveDateTime (Dt) is the number of minutes since 01/01/1970      *)
(*     00:00; FORMAT has no seconds field, so every Dt is a whole minute.  *)
(*   - A &mut reference into the tree is the place it points at: the       *)
(*     sequence of 0-based child indices leading to it from the root.      *)
(***************************************************************************)
EXTENDS Integers, Sequences, FiniteSets, TLC

VARIABLES
    doc,    \* the SagaDoc in memory; doc.data is its root Node
    build,  \* "debug" (overflow checks on) or "release" (wrapping arithmetic)
    op,     \* the operation that ran last ("init" before any)
    arg,    \* its input (drawn at the start where the operation takes no more)
    res,    \* its result
    fs      \* the files on disk, by path (none where no file is touched)

vars == <<doc, build, op, arg, res, fs>>

(***************************************************************************)
(* Bounds of the model.                                                    *)
(***************************************************************************)
\* Values (nodes and events) below the root of a generated tree.
MaxSize == 3
\* Largest path index tried by a query (0 is tried too).
MaxIdx == 3
\* Longest path tried by a query.
MaxPathLen == 3
\* Most words after the first in a generated command line (a date range,
\* which takes five, is generated besides).
MaxArgs == 3
\* Values below the root of a tree a command is evaluated on.
MaxEvalSize == 2
\* Longest path looked up before a command is evaluated.
MaxEvalPathLen == 2

(***************************************************************************)
(* Option<T>.                                                              *)
(***************************************************************************)
None == <<>>
Some(x) == <<x>>
IsSome(o) == Len(o) = 1
Unwrap(o) == o[1]

(***************************************************************************)
(* f64 as exact rationals.                                                 *)
(***************************************************************************)
Abs(x) == IF x < 0 THEN -x ELSE x

RECURSIVE Gcd(_, _)
Gcd(a, b) == IF b = 0 THEN a ELSE Gcd(b, a % b)

\* n/d in lowest terms with d > 0; with d = 0 the values an f64 division by
\* zero gives: <<1, 0>> and <<-1, 0>> for the infinities, <<0, 0>> for NaN.
Rat(n, d) ==
    LET g == Gcd(Abs(n), Abs(d))
        s == IF d < 0 THEN -1 ELSE 1
    IN  IF n = 0 /\ d = 0 THEN <<0, 0>>
        ELSE <<(s * n) \div g, (s * d) \div g>>

F(n) == <<n, 1>>
FAdd(a, b) == Rat(a[1] * b[2] + b[1] * a[2], a[2] * b[2])
FSub(a, b) == Rat(a[1] * b[2] - b[1] * a[2], a[2] * b[2])
FMul(a, b) == Rat(a[1] * b[1], a[2] * b[2])
FDiv(a, b) == Rat(a[1] * b[2], a[2] * b[1])

(***************************************************************************)
(* The tree: events.rs, struct Node / enum Value / struct Event / Dates.   *)
(***************************************************************************)
\* Dates { start, end }.
MkDates(start, end) == [start |-> start, end |-> end]

\* Event::new(name, dt): no descriptions.
NewEvent(name, dt) ==
    [type |-> "Event", name |-> name, descriptions |-> <<>>, datetime |-> dt]

\* A Node with every field given.
MkNode(name, children, offset, y_scale, line) ==
    [type |-> "Node", children |-> children, name |-> name,
     style_override |-> None, color_override |-> None,
     offset |-> offset, y_scale |-> y_scale, line |-> line, graphs |-> <<>>]

\* Node::from_vec(list): default values for everything except the children.
from_vec(list) == MkNode(None, list, F(0), F(1), None)

IsNode(v) == v.type = "Node"
IsEvent(v) == v.type = "Event"

(***************************************************************************)
(* The document: saga.rs, struct SagaDoc.                                  *)
(***************************************************************************)
MkDoc(x, y, padding, color_schemes, data) ==
    [x |-> x, y |-> y, padding |-> padding, color_schemes |-> color_schemes,
     data |-> data]

\* SagaDoc::blank(), holding the given root instead of the empty one.
Blank(data) == MkDoc(F(1920), F(1080), F(0), <<>>, data)

(***************************************************************************)
(* Node::query.                                                            *)
(***************************************************************************)
\* usize::MAX; a Vec is always shorter, whatever the target's word size.
UsizeMax == 2147483647

\* Mutant of UsizeDec: the index used as it is, without the decrement.
UsizeDecForgotten(i) == Some(i)

\* path[0]-1 on usize: None stands for the panic of a build with overflow
\* checks, a build without them wraps around.
UsizeDec(i) ==
    IF i >= 1 THEN Some(i - 1)
    ELSE IF build = "debug" THEN None ELSE Some(UsizeMax)

\* Vec::get_mut(idx), 0-based.
get_mut(children, idx) ==
    IF idx < Len(children) THEN Some(children[idx + 1]) ELSE None

\* &path[1..]
Rest(path) == SubSeq(path, 2, Len(path))

QueryOk(variant, place) == [tag |-> "Query", variant |-> variant, place |-> place]
PathFail(path, at) == [tag |-> "PathFail", path |-> path, at |-> at]
Panic == [tag |-> "Panic"]

\* The reference returned from a child is a reference into self: the place
\* found below child idx, seen from self.
Below(idx, r) ==
    IF r.tag = "Query" THEN QueryOk(r.variant, <<idx>> \o r.place) ELSE r

\* Mutant of EventArm: the guard `if path.len() == 1` dropped.
EventArmUnguarded(path, idx) == QueryOk("Event", <<idx>>)

\* The two match arms for Some(Value::Event(_)).
EventArm(path, idx) ==
    IF Len(path) = 1 THEN QueryOk("Event", <<idx>>)
    ELSE PathFail(path, Len(path))

RECURSIVE query(_, _)
query(self, path) ==
    IF Len(path) = 0 THEN QueryOk("Node", <<>>)
    ELSE LET dec == UsizeDec(path[1]) IN
         IF ~IsSome(dec) THEN Panic
         ELSE LET idx == Unwrap(dec)
                  got == get_mut(self.children, idx)
              IN  IF ~IsSome(got) THEN PathFail(path, Len(path))
                  ELSE IF IsNode(Unwrap(got))
                       THEN Below(idx, query(Unwrap(got), Rest(path)))
                  ELSE EventArm(path, idx)

\* The value a place points at.
RECURSIVE Deref(_, _)
Deref(root, place) ==
    IF Len(place) = 0 THEN root
    ELSE Deref(root.children[place[1] + 1], Rest(place))

(***************************************************************************)
(* Generated trees: every forest of at most n values whose events are      *)
(* taken from Evs and whose nodes take (name, offset, y_scale, line) from   *)
(* Styles.  Any such tree is the content of some document file.            *)
(***************************************************************************)
RECURSIVE Size(_)
RECURSIVE SizeAll(_)
Size(v) == IF IsEvent(v) THEN 1 ELSE 1 + SizeAll(v.children)
SizeAll(s) == IF Len(s) = 0 THEN 0 ELSE Size(s[1]) + SizeAll(Rest(s))

Styled(st, children) == MkNode(st[1], children, st[2], st[3], st[4])

\* Forests of total size at most n.
RECURSIVE Forests(_, _, _)
Forests(n, Evs, Styles) ==
    IF n = 0 THEN {<<>>}
    ELSE {<<>>} \cup UNION {
            LET inner == {f \in Forests(k - 1, Evs, Styles) : SizeAll(f) = k - 1}
                first == (IF k = 1 THEN Evs ELSE {}) \cup
                         {Styled(st, ch) : st \in Styles, ch \in inner}
            IN  {<<v>> \o f : v \in first, f \in Forests(n - k, Evs, Styles)}
            : k \in 1..n}

Trees(n, Evs, Styles) ==
    {Styled(st, ch) : st \in Styles, ch \in Forests(n, Evs, Styles)}

DefaultStyle == <<None, F(0), F(1), None>>

EvA == NewEvent(<<"A">>, MkDates(0, Some(2)))
EvB == NewEvent(<<"B">>, MkDates(1, None))

(***************************************************************************)
(* SpecQuery: Node::query on a generated tree with a generated path.       *)
(***************************************************************************)
RECURSIVE SeqsUpTo(_, _)
SeqsUpTo(S, n) ==
    IF n = 0 THEN {<<>>}
    ELSE LET shorter == SeqsUpTo(S, n - 1)
         IN  shorter \cup {<<x>> \o s : x \in S, s \in {t \in shorter : Len(t) = n - 1}}

QueryTrees == Trees(MaxSize, {EvA, EvB}, {DefaultStyle})
QueryPaths == SeqsUpTo(0..MaxIdx, MaxPathLen)

InitQuery ==
    /\ doc \in {Blank(t) : t \in QueryTrees}
    /\ build \in {"debug", "release"}
    /\ op = "init"
    /\ arg = <<>>
    /\ res = <<>>
    /\ fs = <<>>

Query(path) ==
    /\ op = "init"
    /\ op' = "query"
    /\ arg' = path
    /\ res' = query(doc.data, path)
    /\ UNCHANGED <<doc, build, fs>>

NextQuery == \E path \in QueryPaths : Query(path)

SpecQuery == InitQuery /\ [][NextQuery]_vars

(***************************************************************************)
(* Path validity as the data model defines it, by structure: every step    *)
(* but the last lands on a Node and every index i has 1 <= i <= |children|.*)
(***************************************************************************)
RECURSIVE ValidPath(_, _)
ValidPath(v, path) ==
    \/ Len(path) = 0
    \/ /\ IsNode(v)
       /\ 1 <= path[1]
       /\ path[1] <= Len(v.children)
       /\ ValidPath(v.children[path[1]], Rest(path))

\* The place a 1-based path names.
ZeroBased(path) == [j \in 1..Len(path) |-> path[j] - 1]

\* The lookup, every step before being valid, reaches a step whose index
\* exceeds the number of children of the node reached, or lands on an Event
\* with indices still to follow.
RECURSIVE BadStep(_, _)
BadStep(n, path) ==
    /\ Len(path) > 0
    /\ \/ path[1] > Len(n.children)
       \/ /\ 1 <= path[1]
          /\ path[1] <= Len(n.children)
          /\ LET c == n.children[path[1]]
             IN  IF IsEvent(c) THEN Len(path) > 1 ELSE BadStep(c, Rest(path))

\* C1: for every tree and every valid 1-based path, query succeeds, the
\* reference it returns points at the addressed value, and the variant is
\* Query::Node for the empty path and a child Node, Query::Event for a
\* child Event.
C1_QueryValidPath ==
    (op = "query" /\ ValidPath(doc.data, arg)) =>
        /\ res.tag = "Query"
        /\ res.place = ZeroBased(arg)
        /\ res.variant = Deref(doc.data, ZeroBased(arg)).type
        /\ (Len(arg) = 0 => res.variant = "Node")

\* A valid path of three steps that ends on an Event has been queried.
C1_Witness ==
    /\ op = "query"
    /\ ValidPath(doc.data, arg)
    /\ Len(arg) = 3
    /\ res.tag = "Query"
    /\ res.variant = "Event"

\* C2: query returns PathFail, never a Query, when the lookup reaches an
\* index greater than the number of children of the node reached so far or
\* a non-final step lands on an Event.
C2_QueryPathFail ==
    (op = "query" /\ BadStep(doc.data, arg)) => res.tag = "PathFail"

\* A path whose second step lands on an Event with a third index to follow
\* has been queried and failed.
C2_Witness ==
    /\ op = "query"
    /\ Len(arg) = 3
    /\ ValidPath(doc.data, SubSeq(arg, 1, 2))
    /\ IsEvent(Deref(doc.data, ZeroBased(SubSeq(arg, 1, 2))))
    /\ res.tag = "PathFail"

(***************************************************************************)
(* The iterators of Node.  An item &Node / &Event is the place of that     *)
(* node or event below self.                                               *)
(***************************************************************************)
\* The items found below child idx, seen from self.
Under(idx, items) == [k \in 1..Len(items) |-> <<idx>> \o items[k]]

\* Node::iter_nodes: once(self) chained with the flattened iter_nodes of the
\* children that are Nodes.  kids(i) is the flattened part from child i on.
RECURSIVE iter_nodes(_)
iter_nodes(self) ==
    LET RECURSIVE kids(_)
        kids(i) ==
            IF i > Len(self.children) THEN <<>>
            ELSE (IF IsNode(self.children[i])
                  THEN Under(i - 1, iter_nodes(self.children[i]))
                  ELSE <<>>) \o kids(i + 1)
    IN  <<<<>>>> \o kids(1)

\* Mutant of iter_events: child Nodes are skipped instead of descended into.
iter_events_shallow(self) ==
    LET RECURSIVE kids(_)
        kids(i) ==
            IF i > Len(self.children) THEN <<>>
            ELSE (IF IsNode(self.children[i]) THEN <<>> ELSE <<<<i - 1>>>>)
                 \o kids(i + 1)
    IN  kids(1)

\* Node::iter_events: the flattened map of the children, a Node giving its
\* own iter_events and an Event giving once(event).
RECURSIVE iter_events(_)
iter_events(self) ==
    LET RECURSIVE kids(_)
        kids(i) ==
            IF i > Len(self.children) THEN <<>>
            ELSE (IF IsNode(self.children[i])
                  THEN Under(i - 1, iter_events(self.children[i]))
                  ELSE <<<<i - 1>>>>) \o kids(i + 1)
    IN  kids(1)

\* Node::depth_iter.
RECURSIVE depth_iter(_, _)
depth_iter(self, depth) ==
    LET RECURSIVE kids(_)
        kids(i) ==
            IF i > Len(self.children) THEN <<>>
            ELSE (IF IsNode(self.children[i])
                  THEN depth_iter(self.children[i], depth + 1)
                  ELSE <<>>) \o kids(i + 1)
    IN  <<depth>> \o kids(1)

\* Mutant of depth: counting starts at 1.
depth_from_one(self) == depth_iter(self, 1)

\* Node::depth.
depth(self) == depth_iter(self, 0)

\* Mutant of ChildTransform: the node's own pair handed down unscaled.
ChildTransformUnscaled(self, offset, scale) ==
    <<FAdd(self.offset, offset), FMul(self.y_scale, scale)>>

\* The (offset, scale) that transform_iter hands to every child Node:
\* pair = (self.offset + offset, self.y_scale * scale), then
\* node.transform_iter(pair.0 * scale, pair.1).
ChildTransform(self, offset, scale) ==
    LET pair == <<FAdd(self.offset, offset), FMul(self.y_scale, scale)>>
    IN  <<FMul(pair[1], scale), pair[2]>>

\* Node::transform_iter.
RECURSIVE transform_iter(_, _, _)
transform_iter(self, offset, scale) ==
    LET down == ChildTransform(self, offset, scale)
        RECURSIVE kids(_)
        kids(i) ==
            IF i > Len(self.children) THEN <<>>
            ELSE (IF IsNode(self.children[i])
                  THEN transform_iter(self.children[i], down[1], down[2])
                  ELSE <<>>) \o kids(i + 1)
    IN  <<<<offset, scale>>>> \o kids(1)

(***************************************************************************)
(* Timestamps and ranges.                                                  *)
(***************************************************************************)
\* i64::MAX and i64::MIN, scaled to the integers TLC has: the timestamps of
\* the model are a few minutes after the epoch, and the two bounds compare
\* with them as the 64-bit ones do.
I64Max == 2147483647
I64Min == -I64Max - 1

Min(a, b) == IF a <= b THEN a ELSE b
Max(a, b) == IF a >= b THEN a ELSE b

\* NaiveDateTime::timestamp(): seconds since the epoch.
timestamp(dt) == dt * 60

\* Dates::stamps.
stamps(self) ==
    <<timestamp(self.start),
      IF IsSome(self.end) THEN Some(timestamp(Unwrap(self.end))) ELSE None>>

\* Option::unwrap_or.
unwrap_or(o, default) == IF IsSome(o) THEN Unwrap(o) ELSE default

\* Mutant of expand_range: a start is not compared when there is an end.
expand_range_end_only(self, range) ==
    LET min == range[1]
        max == range[2]
        start == stamps(self)[1]
        end == stamps(self)[2]
    IN  <<Min(unwrap_or(end, start), min),
          Max(unwrap_or(end, start), max)>>

\* Dates::expand_range.
expand_range(self, range) ==
    LET min == range[1]
        max == range[2]
        start == stamps(self)[1]
        end == stamps(self)[2]
    IN  <<Min(unwrap_or(end, I64Max), Min(min, start)),
          Max(unwrap_or(end, I64Min), Max(max, start))>>

\* Iterator::fold over a sequence of event places of node self.
RECURSIVE FoldRange(_, _, _)
FoldRange(self, places, acc) ==
    IF Len(places) = 0 THEN acc
    ELSE FoldRange(self, Rest(places),
                   expand_range(Deref(self, places[1]).datetime, acc))

\* Node::range.
range(self) == FoldRange(self, iter_events(self), <<I64Max, I64Min>>)

\* Node::is_empty.
is_empty(self) == Len(iter_events(self)) = 0

\* Node::location: the node itself is never read, only the range given.
NodeLocation(self, rng) ==
    LET start == rng[1]
        end == rng[2]
        width == F(end - start)
    IN  IF width = F(0) THEN None
        ELSE Some(<<FDiv(FSub(F(rng[1]), F(start)), width),
                    FDiv(FSub(F(rng[2]), F(start)), width)>>)

\* Event::location; the caller guarantees a span other than 0.
EventLocation(self, rng) ==
    LET start == rng[1]
        end == rng[2]
        span == F(end - start)
        f(date) == FDiv(F(timestamp(date) - start), span)
    IN  <<f(self.datetime.start),
          IF IsSome(self.datetime.end)
          THEN Some(f(Unwrap(self.datetime.end))) ELSE None>>

\* Iterator::zip: as long as the shorter of the two.
Zip(a, b) == [k \in 1..Min(Len(a), Len(b)) |-> <<a[k], b[k]>>]

\* Iterator::filter on is_some followed by unwrap.
RECURSIVE Somes(_)
Somes(opts) ==
    IF Len(opts) = 0 THEN <<>>
    ELSE (IF IsSome(opts[1]) THEN <<Unwrap(opts[1])>> ELSE <<>>) \o Somes(Rest(opts))

MkLine(start, end, interval, y) ==
    [start |-> start, end |-> end, interval |-> interval, y |-> y]

\* Mutant of LineOf: the y of a line without the depth factor.
LineOfNoDepth(node, offset, scale, d, grand_range) ==
    LET y == FMul(offset, scale)
        loc == NodeLocation(node, grand_range)
    IN  IF IsSome(node.line) /\ IsSome(loc)
        THEN Some(MkLine(Unwrap(loc)[1], Unwrap(loc)[2], Unwrap(node.line), y))
        ELSE None

\* The closure of Node::lines, applied to ((node, (offset, scale)), depth).
LineOf(node, offset, scale, d, grand_range) ==
    LET y == FMul(FMul(offset, scale), F(d))
        loc == NodeLocation(node, grand_range)
    IN  IF IsSome(node.line) /\ IsSome(loc)
        THEN Some(MkLine(Unwrap(loc)[1], Unwrap(loc)[2], Unwrap(node.line), y))
        ELSE None

\* Node::lines.
lines(self, grand_range) ==
    LET zipped == Zip(Zip(iter_nodes(self), transform_iter(self, F(0), F(1))),
                      depth(self))
    IN  Somes([k \in 1..Len(zipped) |->
                 LineOf(Deref(self, zipped[k][1][1]),
                        zipped[k][1][2][1], zipped[k][1][2][2],
                        zipped[k][2], grand_range)])

(***************************************************************************)
(* SagaDoc::draw.  The svg Document is the set of attributes set on it and *)
(* the sequence of paths appended to it; a path's data is its sequence of  *)
(* commands.                                                               *)
(***************************************************************************)
\* Document::new().
NewDocument == [attributes |-> {}, children |-> <<>>]

move_to(x, y) == <<"M", x, y>>
line_to(x, y) == <<"L", x, y>>
close == <<"Z">>

SvgPath(fill, stroke, stroke_width, d) ==
    [fill |-> fill, stroke |-> stroke, stroke_width |-> stroke_width, d |-> d]

\* The body of the for loop of draw, for one ((event, depth), (offset, scale)).
EventPath(self, event, d, offset, scale, y_slide, rng) ==
    LET locs == EventLocation(event, rng)
        x_start == FMul(locs[1], self.x)
        y == FMul(FMul(FMul(offset, scale), self.y), F(d))
        height == FMul(Rat(2, 10), self.y)
        top == FAdd(y, y_slide)
        bottom == FAdd(FAdd(y, y_slide), height)
        data ==
            IF IsSome(locs[2])
            THEN LET some_end == FMul(Unwrap(locs[2]), self.x)
                 IN  <<move_to(x_start, top), line_to(some_end, top),
                       line_to(some_end, bottom), line_to(x_start, bottom), close>>
            ELSE <<move_to(x_start, top), line_to(x_start, bottom), close>>
    IN  SvgPath("#C3B2A4", "#2e3d50", 2, data)

\* SagaDoc::paint_lines: the paths appended to the document.
paint_lines(self, rng, slide) ==
    LET ls == lines(self.data, rng)
    IN  [k \in 1..Len(ls) |->
           LET y == FAdd(FMul(ls[k].y, self.y), slide)
           IN  SvgPath("#C3B2A4", "#000000", 5,
                       <<move_to(FMul(ls[k].start, self.x), y),
                         line_to(FMul(ls[k].end, self.x), y), close>>)]

\* Mutant of draw: only a range that runs backwards is turned away.
draw_zero_width(self) ==
    IF is_empty(self.data) THEN NewDocument
    ELSE LET rng == range(self.data) IN
         IF rng[2] - rng[1] < 0 THEN NewDocument
         ELSE LET y_slide == FMul(Rat(1, 10), self.y)
                  zipped == Zip(Zip(iter_events(self.data), depth(self.data)),
                                transform_iter(self.data, F(0), F(1)))
                  paths == [k \in 1..Len(zipped) |->
                              EventPath(self, Deref(self.data, zipped[k][1][1]),
                                        zipped[k][1][2],
                                        zipped[k][2][1], zipped[k][2][2],
                                        y_slide, rng)]
              IN  [attributes |-> {"viewbox", "width", "height",
                                   "background-color", "saga_doc"},
                   children |-> paths \o paint_lines(self, rng, y_slide)]

\* SagaDoc::draw.
draw(self) ==
    IF is_empty(self.data) THEN NewDocument
    ELSE LET rng == range(self.data) IN
         IF rng[2] - rng[1] = 0 THEN NewDocument
         ELSE LET y_slide == FMul(Rat(1, 10), self.y)
                  zipped == Zip(Zip(iter_events(self.data), depth(self.data)),
                                transform_iter(self.data, F(0), F(1)))
                  paths == [k \in 1..Len(zipped) |->
                              EventPath(self, Deref(self.data, zipped[k][1][1]),
                                        zipped[k][1][2],
                                        zipped[k][2][1], zipped[k][2][2],
                                        y_slide, rng)]
              IN  [attributes |-> {"viewbox", "width", "height",
                                   "background-color", "saga_doc"},
                   children |-> paths \o paint_lines(self, rng, y_slide)]

(***************************************************************************)
(* SpecIter: the iterators, lines and draw on a generated document.        *)
(***************************************************************************)
\* (name, offset, y_scale, line) of the generated nodes.
PlainStyle == <<None, F(1), F(2), None>>
LineStyle == <<None, F(2), F(3), Some(None)>>
TickStyle == <<None, F(1), Rat(1, 2), Some(Some(F(5)))>>

IterTrees == Trees(MaxSize, {EvA, EvB}, {PlainStyle, LineStyle, TickStyle})

\* The (offset, scale) pairs a traversal is started with.
StartTransforms == {<<F(0), F(1)>>, <<F(1), F(2)>>}

\* The global ranges handed to lines: timestamps of the first minutes after
\* the epoch, in either order, of zero width too, the range of the events
\* A and B together among them.
GrandRanges == {<<timestamp(a), timestamp(b)>> : a \in 0..1, b \in 0..2}

\* No operation of this specification does arithmetic that can overflow, so
\* one build stands for both.
InitIter ==
    /\ doc \in {Blank(t) : t \in IterTrees}
    /\ build = "release"
    /\ op = "init"
    /\ arg = <<>>
    /\ res = <<>>
    /\ fs = <<>>

Ran(name, input, output) ==
    /\ op = "init"
    /\ op' = name
    /\ arg' = input
    /\ res' = output
    /\ UNCHANGED <<doc, build, fs>>

IterNodes == Ran("iter_nodes", <<>>, iter_nodes(doc.data))
IterEvents == Ran("iter_events", <<>>, iter_events(doc.data))
Depth == Ran("depth", <<>>, depth(doc.data))
TransformIter(t) == Ran("transform_iter", t, transform_iter(doc.data, t[1], t[2]))
Lines(rng) == Ran("lines", rng, lines(doc.data, rng))
Draw == Ran("draw", <<>>, draw(doc))

NextIter ==
    \/ IterNodes
    \/ IterEvents
    \/ Depth
    \/ \E t \in StartTransforms : TransformIter(t)
    \/ \E rng \in GrandRanges : Lines(rng)
    \/ Draw

SpecIter == InitIter /\ [][NextIter]_vars

(***************************************************************************)
(* The tree read by structure: the set of places of a subtree, and         *)
(* preorder as the lexicographic order of places (a parent before its      *)
(* children, children in their order).                                     *)
(***************************************************************************)
RECURSIVE Places(_)
Places(v) ==
    {<<>>} \cup
    (IF IsNode(v)
     THEN UNION {{<<i - 1>> \o p : p \in Places(v.children[i])} :
                 i \in 1..Len(v.children)}
     ELSE {})

NodePlaces(root) == {p \in Places(root) : IsNode(Deref(root, p))}
EventPlaces(root) == {p \in Places(root) : IsEvent(Deref(root, p))}

RECURSIVE LexLeq(_, _)
LexLeq(a, b) ==
    \/ Len(a) = 0
    \/ /\ Len(b) > 0
       /\ \/ a[1] < b[1]
          \/ a[1] = b[1] /\ LexLeq(Rest(a), Rest(b))

RECURSIVE Preorder(_)
Preorder(S) ==
    IF S = {} THEN <<>>
    ELSE LET first == CHOOSE x \in S : \A y \in S : LexLeq(x, y)
         IN  <<first>> \o Preorder(S \ {first})

Front(p) == SubSeq(p, 1, Len(p) - 1)

\* The (offset, scale) pair a node at place p inherits when the traversal of
\* root starts with t0: t0 at the root, and below a parent that inherited
\* (o_in, s_in) the pair ((o_in + parent.offset) * s_in, parent.y_scale * s_in).
RECURSIVE Inherited(_, _, _)
Inherited(root, p, t0) ==
    IF Len(p) = 0 THEN t0
    ELSE LET parent == Deref(root, Front(p))
             in == Inherited(root, Front(p), t0)
         IN  <<FMul(FAdd(in[1], parent.offset), in[2]),
               FMul(parent.y_scale, in[2])>>

\* C7: iter_events yields each Event leaf once, in preorder; iter_nodes
\* yields each Node, self included, once, in preorder; depth and
\* transform_iter yield as many items as there are Nodes.
C7_IteratorsCoverTree ==
    /\ op = "iter_events" => res = Preorder(EventPlaces(doc.data))
    /\ op = "iter_nodes" => res = Preorder(NodePlaces(doc.data))
    /\ op = "depth" => Len(res) = Cardinality(NodePlaces(doc.data))
    /\ op = "transform_iter" => Len(res) = Cardinality(NodePlaces(doc.data))

\* iter_events has run on a tree with an Event below the root and another
\* one below a child Node that comes first.
C7_Witness ==
    /\ op = "iter_events"
    /\ Len(res) >= 2
    /\ Len(res[1]) = 2
    /\ Len(res[2]) = 1

\* C8: depth yields, position by position in the preorder of the Nodes, the
\* nesting depth of each: 0 for self, the parent's depth + 1 for a child.
C8_DepthIsNesting ==
    op = "depth" =>
        LET nodes == Preorder(NodePlaces(doc.data))
        IN  res = [k \in 1..Len(nodes) |-> Len(nodes[k])]

\* depth has run on a tree where a Node of depth 1 follows one of depth 2.
C8_Witness ==
    /\ op = "depth"
    /\ Len(res) = 4
    /\ res[3] = 2
    /\ res[4] = 1

\* C9: transform_iter(o0, s0) yields for each Node, in preorder, the pair it
\* inherited; a node's own offset and y_scale are not part of its own pair.
C9_TransformIsInherited ==
    op = "transform_iter" =>
        LET nodes == Preorder(NodePlaces(doc.data))
        IN  res = [k \in 1..Len(nodes) |-> Inherited(doc.data, nodes[k], arg)]

\* transform_iter has run with a start other than (0, 1) on a tree with a
\* Node two levels below the root.
C9_Witness ==
    /\ op = "transform_iter"
    /\ arg = <<F(1), F(2)>>
    /\ \E p \in NodePlaces(doc.data) : Len(p) = 2

\* C10: lines returns, in preorder, one Line for each Node whose line is
\* present when the range has a width other than 0, and none otherwise;
\* each Line carries the node's interval and y = o * s * d, with (o, s) and
\* d the transform_iter(0, 1) and depth entries at the node's position.
C10_LinesPerLinedNode ==
    op = "lines" =>
        LET nodes == Preorder(NodePlaces(doc.data))
            ts == transform_iter(doc.data, F(0), F(1))
            ds == depth(doc.data)
            Lined(k) == IsSome(Deref(doc.data, nodes[k]).line)
            at == SelectSeq([k \in 1..Len(nodes) |-> k], Lined)
        IN  IF arg[2] - arg[1] = 0 THEN res = <<>>
            ELSE /\ Len(res) = Len(at)
                 /\ \A j \in 1..Len(at) :
                      /\ res[j].interval = Unwrap(Deref(doc.data, nodes[at[j]]).line)
                      /\ res[j].y = FMul(FMul(ts[at[j]][1], ts[at[j]][2]), F(ds[at[j]]))

\* lines has run with a range of width other than 0 on a tree holding a
\* Node with a tick interval, a Node with a line and none, and a Node
\* without line; one of the Lines has a y other than 0.
C10_Witness ==
    /\ op = "lines"
    /\ arg[2] - arg[1] # 0
    /\ Len(res) = 2
    /\ \E j \in 1..2 : res[j].interval = None
    /\ \E j \in 1..2 : res[j].interval = Some(F(5))
    /\ \E j \in 1..2 : res[j].y # F(0)
    /\ Cardinality(NodePlaces(doc.data)) = 3

\* The paths draw appends for events, in the order appended (the paths of
\* paint_lines are stroked black).
EventPrimitives(document) ==
    LET IsEventPath(path) == path.stroke = "#2e3d50"
    IN  SelectSeq(document.children, IsEventPath)

\* y_top of the event at place p: offset * scale * doc.y * depth + y_slide,
\* with depth and (offset, scale) those of the Node that directly encloses
\* the event, as depth and transform_iter(0, 1) give them for that Node.
EnclosingTop(self, p) ==
    LET t == Inherited(self.data, Front(p), <<F(0), F(1)>>)
    IN  FAdd(FMul(FMul(FMul(t[1], t[2]), self.y), F(Len(Front(p)))),
             FMul(Rat(1, 10), self.y))

\* C6: rendering a document whose range is not empty and has a width other
\* than 0 emits one event primitive per Event leaf, a closed rectangle for
\* an interval and a vertical segment for a point, each with the y_top that
\* the depth and the transform of the enclosing Node give.
C6_OnePrimitivePerEvent ==
    (/\ op = "draw"
     /\ EventPlaces(doc.data) # {}
     /\ range(doc.data)[2] - range(doc.data)[1] # 0) =>
        LET evs == Preorder(EventPlaces(doc.data))
            prims == EventPrimitives(res)
        IN  /\ Len(prims) = Len(evs)
            /\ \A k \in 1..Len(evs) :
                 /\ Len(prims[k].d) =
                      (IF IsSome(Deref(doc.data, evs[k]).datetime.end) THEN 5 ELSE 3)
                 /\ prims[k].d[1][3] = EnclosingTop(doc, evs[k])

(***************************************************************************)
(* Text: scanning and parsing of numbers and dates.                        *)
(***************************************************************************)
\* char::is_ascii_whitespace, over the characters the model uses.
IsWhitespace(c) == c \in {" ", "\t", "\n"}

DigitChars == <<"0", "1", "2", "3", "4", "5", "6", "7", "8", "9">>
IsDigit(c) == \E i \in 1..10 : DigitChars[i] = c
DigitVal(c) == (CHOOSE i \in 1..10 : DigitChars[i] = c) - 1

\* s[from..], 1-based.
From(s, from) == SubSeq(s, from, Len(s))

\* str::split_ascii_whitespace: the maximal runs of other characters.
RECURSIVE split_ascii_whitespace(_)
split_ascii_whitespace(s) ==
    IF Len(s) = 0 THEN <<>>
    ELSE IF IsWhitespace(s[1]) THEN split_ascii_whitespace(Rest(s))
    ELSE LET ends == {k \in 1..Len(s) : k = Len(s) \/ IsWhitespace(s[k + 1])}
             last == CHOOSE k \in ends : \A j \in ends : k <= j
         IN  <<SubSeq(s, 1, last)>> \o split_ascii_whitespace(From(s, last + 1))

\* [&str]::join(" ").
RECURSIVE join(_, _)
join(words, sep) ==
    IF Len(words) = 0 THEN <<>>
    ELSE IF Len(words) = 1 THEN words[1]
    ELSE words[1] \o sep \o join(Rest(words), sep)

\* str::trim.
RECURSIVE trim_start(_)
trim_start(s) ==
    IF Len(s) > 0 /\ IsWhitespace(s[1]) THEN trim_start(Rest(s)) ELSE s

RECURSIVE trim_end(_)
trim_end(s) ==
    IF Len(s) > 0 /\ IsWhitespace(s[Len(s)]) THEN trim_end(Front(s)) ELSE s

trim(s) == trim_end(trim_start(s))

\* The length of the longest prefix of s made of digits.
RECURSIVE DigitRun(_)
DigitRun(s) == IF Len(s) > 0 /\ IsDigit(s[1]) THEN 1 + DigitRun(Rest(s)) ELSE 0

\* The value of a sequence of digits, continuing from acc.
RECURSIVE Decimal(_, _)
Decimal(s, acc) ==
    IF Len(s) = 0 THEN acc ELSE Decimal(Rest(s), 10 * acc + DigitVal(s[1]))

RECURSIVE Pow10(_)
Pow10(n) == IF n = 0 THEN 1 ELSE 10 * Pow10(n - 1)

Ok(v) == [ok |-> TRUE, val |-> v]
Err(e) == [ok |-> FALSE, err |-> e]

\* str::parse::<usize>: an optional '+' and then digits, at least one.
\* (Values too large for usize are not drawn.)
parse_usize(s) ==
    LET body == IF Len(s) > 0 /\ s[1] = "+" THEN Rest(s) ELSE s
    IN  IF Len(s) = 0 THEN Err("Empty")
        ELSE IF Len(body) > 0 /\ DigitRun(body) = Len(body)
             THEN Ok(Decimal(body, 0))
        ELSE Err("InvalidDigit")

\* The digits of a decimal, whole of them before the point and frac after
\* it, as a number, when at least one digit is there and nothing else is.
DecimalValue(negative, body, whole, dotted, frac) ==
    IF ~(/\ whole + Len(frac) > 0
         /\ DigitRun(frac) = Len(frac)
         /\ (dotted \/ whole = Len(body)))
    THEN Err("Invalid")
    ELSE IF negative
         THEN Ok(FSub(F(0), Rat(Decimal(SubSeq(body, 1, whole) \o frac, 0),
                                Pow10(Len(frac)))))
         ELSE Ok(Rat(Decimal(SubSeq(body, 1, whole) \o frac, 0), Pow10(Len(frac))))

DecimalParts(negative, body, whole, dotted) ==
    DecimalValue(negative, body, whole, dotted,
                 IF dotted THEN From(body, whole + 2) ELSE <<>>)

DecimalBody(negative, body, whole) ==
    DecimalParts(negative, body, whole,
                 Len(body) > whole /\ body[whole + 1] = ".")

Unsigned(negative, body) == DecimalBody(negative, body, DigitRun(body))

\* str::parse::<f64>, decimal notation: an optional sign, digits, an
\* optional '.' and digits, with a digit on at least one side.  (Exponents,
\* "inf" and "nan" are not drawn.)
parse_f64(s) ==
    IF Len(s) = 0 THEN Err("Empty")
    ELSE Unsigned(s[1] = "-", IF s[1] \in {"+", "-"} THEN Rest(s) ELSE s)

(***************************************************************************)
(* Dates: NaiveDateTime::parse_from_str(_, FORMAT) with                    *)
(* FORMAT = "%d/%m/%Y %H:%M", and impl FromStr for Dates.                  *)
(***************************************************************************)
\* A numeric item of the format: leading whitespace is skipped, then one to
\* width digits are taken.  (A signed year is not drawn.)
ScanNumber(s, width) ==
    LET t == trim_start(s)
        n == Min(DigitRun(t), width)
    IN  IF Len(t) = 0 THEN Err("TooShort")
        ELSE IF n = 0 THEN Err("Invalid")
        ELSE Ok([val |-> Decimal(SubSeq(t, 1, n), 0), rest |-> From(t, n + 1)])

\* A literal item of the format.
ScanLiteral(s, c) ==
    IF Len(s) = 0 THEN Err("TooShort")
    ELSE IF s[1] # c THEN Err("Invalid")
    ELSE Ok(Rest(s))

IsLeap(y) == (y % 4 = 0 /\ y % 100 # 0) \/ y % 400 = 0

DaysInMonth(y, m) ==
    IF m = 2 THEN (IF IsLeap(y) THEN 29 ELSE 28)
    ELSE IF m \in {4, 6, 9, 11} THEN 30 ELSE 31

\* Days from 01/01/1970 to the first day of year y (y >= 1970 is all the
\* model draws) and to the first day of month m of year y.
RECURSIVE DaysBeforeYear(_)
DaysBeforeYear(y) ==
    IF y <= 1970 THEN 0
    ELSE DaysBeforeYear(y - 1) + (IF IsLeap(y - 1) THEN 366 ELSE 365)

RECURSIVE DaysBeforeMonth(_, _)
DaysBeforeMonth(y, m) ==
    IF m <= 1 THEN 0 ELSE DaysBeforeMonth(y, m - 1) + DaysInMonth(y, m - 1)

\* The Dt of a calendar date and time of day.
MkDt(y, m, d, hh, mm) ==
    (DaysBeforeYear(y) + DaysBeforeMonth(y, m) + (d - 1)) * 1440 + hh * 60 + mm

\* FORMAT = "%d/%m/%Y %H:%M" as the items the parser walks.
Numeric(width) == [item |-> "Numeric", width |-> width]
Literal(c) == [item |-> "Literal", c |-> c]
Space == [item |-> "Space"]
FORMAT ==
    <<Numeric(2), Literal("/"), Numeric(2), Literal("/"), Numeric(4), Space,
      Numeric(2), Literal(":"), Numeric(2)>>

\* The items of a format taken from s in turn, nothing left over: the
\* numbers read, or the first error.
RECURSIVE ScanItems(_, _, _)
ScanItems(s, items, fields) ==
    IF Len(items) = 0
    THEN (IF Len(s) > 0 THEN Err("TooLong") ELSE Ok(fields))
    ELSE CASE items[1].item = "Numeric" ->
                LET number == ScanNumber(s, items[1].width)
                IN  IF number.ok
                    THEN ScanItems(number.val.rest, Rest(items),
                                   Append(fields, number.val.val))
                    ELSE number
           [] items[1].item = "Literal" ->
                LET after == ScanLiteral(s, items[1].c)
                IN  IF after.ok THEN ScanItems(after.val, Rest(items), fields)
                    ELSE after
           [] items[1].item = "Space" ->
                ScanItems(trim_start(s), Rest(items), fields)

\* The fields <<d, m, y, hh, mm>> as a Dt, when they are a real date and time.
ToDt(f) ==
    IF /\ f[2] \in 1..12
       /\ f[1] >= 1
       /\ f[1] <= DaysInMonth(f[3], f[2])
       /\ f[4] <= 23
       /\ f[5] <= 59
    THEN Ok(MkDt(f[3], f[2], f[1], f[4], f[5]))
    ELSE Err("OutOfRange")

\* Dt::parse_from_str(s, FORMAT).
Scanned(scanned) == IF scanned.ok THEN ToDt(scanned.val) ELSE scanned
parse_from_str(s) == Scanned(ScanItems(s, FORMAT, <<>>))

\* str::split_once('-'): the text before and after the first '-'.
split_once(s, c) ==
    LET at == {k \in 1..Len(s) : s[k] = c}
    IN  IF at = {} THEN None
        ELSE LET k == CHOOSE i \in at : \A j \in at : i <= j
             IN  Some(<<SubSeq(s, 1, k - 1), From(s, k + 1)>>)

\* The two results of parse_from_str of a range, each tried in turn.
BothDates(start, end) ==
    IF ~start.ok THEN start
    ELSE IF ~end.ok THEN end
    ELSE Ok(MkDates(start.val, Some(end.val)))

OneDate(only) == IF ~only.ok THEN only ELSE Ok(MkDates(only.val, None))

SplitDates(s, halves) ==
    IF IsSome(halves)
    THEN BothDates(parse_from_str(trim(Unwrap(halves)[1])),
                   parse_from_str(trim(Unwrap(halves)[2])))
    ELSE OneDate(parse_from_str(s))

\* impl FromStr for Dates.
Dates_from_str(s) == SplitDates(s, split_once(s, "-"))

(***************************************************************************)
(* The edit command language: edit.rs, enum Command and its FromStr.       *)
(***************************************************************************)
Exit == [cmd |-> "Exit"]
Help == [cmd |-> "Help"]
NameSub == [cmd |-> "NameSub"]
NameEdit(opt_name) == [cmd |-> "NameEdit", name |-> opt_name]
DescAdd(opt_str) == [cmd |-> "DescAdd", text |-> opt_str]
DescSub(index) == [cmd |-> "DescSub", index |-> index]
DescEdit(index, opt_str) == [cmd |-> "DescEdit", index |-> index, text |-> opt_str]
LineEdit(opt_opt_f64) == [cmd |-> "LineEdit", line |-> opt_opt_f64]
Offset(n) == [cmd |-> "Offset", n |-> n]
Scale(n) == [cmd |-> "Scale", n |-> n]
DateEdit(dates) == [cmd |-> "DateEdit", dates |-> dates]

\* enum ParseError.
MissingCommand == [error |-> "MissingCommand"]
MissingArgument == [error |-> "MissingArgument"]
ExtraArgument(head, rest) == [error |-> "ExtraArgument", head |-> head, rest |-> rest]
UnknownCommand(head, rest) == [error |-> "UnknownCommand", head |-> head, rest |-> rest]
NotAFloat(inner) == [error |-> "NotAFloat", inner |-> inner]
NotAInt(inner) == [error |-> "NotAInt", inner |-> inner]
NotADT(inner) == [error |-> "NotADT", inner |-> inner]

\* Mutant of get_mod: a leading '+' is left on the word.
get_mod_keeps_plus(word) ==
    IF Len(word) > 0 /\ word[1] = "-" THEN <<"Sub", Rest(word)>>
    ELSE <<"Edit", word>>

\* get_mod: the modifier of a word and the word without it.
get_mod(word) ==
    IF Len(word) > 0 /\ word[1] = "+" THEN <<"Add", Rest(word)>>
    ELSE IF Len(word) > 0 /\ word[1] = "-" THEN <<"Sub", Rest(word)>>
    ELSE <<"Edit", word>>

\* Mutant of tail: the words run together without the space.
tail_unspaced(stream) ==
    IF Len(stream) = 0 THEN None ELSE Some(join(stream, <<>>))

\* fn tail: the rest of the stream joined with single spaces, if there is
\* any.  The stream is left empty.
tail(stream) ==
    IF Len(stream) = 0 THEN None ELSE Some(join(stream, <<" ">>))

\* What an arm of the match leaves behind: the value of `result` and the
\* tokens not yet taken, or the error a `?` returned from from_str with.
Arm(result, left) == [returned |-> FALSE, result |-> result, left |-> left]
Returned(error) == [returned |-> TRUE, result |-> Err(error), left |-> <<>>]

\* Option::transpose of the token's parse: Some(Ok(v)) is Ok(Some(v)) and
\* Some(Err(e)) is Err(e).
transpose(n) == IF n.ok THEN Ok(Some(n.val)) ELSE n

\* fn parse_next::<usize>: the next token parsed, if there is one.  The
\* stream loses that token.
parse_next_usize(stream) ==
    IF Len(stream) = 0 THEN Ok(None) ELSE transpose(parse_usize(stream[1]))

\* Mutant of parse_next::<f64>: a missing token counts as 0.
parse_next_f64_or_zero(stream) ==
    IF Len(stream) = 0 THEN Ok(Some(F(0))) ELSE transpose(parse_f64(stream[1]))

\* fn parse_next::<f64>.
parse_next_f64(stream) ==
    IF Len(stream) = 0 THEN Ok(None) ELSE transpose(parse_f64(stream[1]))

Word_exit == <<"e", "x", "i", "t">>
Word_help == <<"h", "e", "l", "p">>
Word_date == <<"d", "a", "t", "e">>
Word_name == <<"n", "a", "m", "e">>
Word_desc == <<"d", "e", "s", "c">>
Word_line == <<"l", "i", "n", "e">>
Word_offset == <<"o", "f", "f", "s", "e", "t">>
Word_scale == <<"s", "c", "a", "l", "e">>

\* The match on (head, modifier), arms in the order of the source.
\* The arms of the match that read a scalar, given what parse_next (or
\* tail) returned: .map_err(..)? first, .ok_or(MissingArgument)? second.
DateParsed(dt) ==
    IF ~dt.ok THEN Returned(NotADT(dt.err)) ELSE Arm(Ok(DateEdit(dt.val)), <<>>)
DateArm(text) ==
    IF ~IsSome(text) THEN Returned(MissingArgument) ELSE DateParsed(Dates_from_str(Unwrap(text)))
DescSubArm(n, tokens) ==
    IF ~n.ok THEN Returned(NotAInt(n.err))
    ELSE IF ~IsSome(n.val) THEN Returned(MissingArgument)
    ELSE Arm(Ok(DescSub(Unwrap(n.val))), Rest(tokens))
DescEditArm(index, tokens) ==
    IF ~index.ok THEN Returned(NotAInt(index.err))
    ELSE IF ~IsSome(index.val) THEN Returned(MissingArgument)
    ELSE Arm(Ok(DescEdit(Unwrap(index.val), tail(Rest(tokens)))), <<>>)
LineArm(opt_n, tokens) ==
    IF ~opt_n.ok THEN Returned(NotAFloat(opt_n.err))
    ELSE Arm(Ok(LineEdit(Some(opt_n.val))), Rest(tokens))
OffsetArm(n, tokens) ==
    IF ~n.ok THEN Returned(NotAFloat(n.err))
    ELSE IF ~IsSome(n.val) THEN Returned(MissingArgument)
    ELSE Arm(Ok(Offset(Unwrap(n.val))), Rest(tokens))
ScaleArm(n, tokens) ==
    IF ~n.ok THEN Returned(NotAFloat(n.err))
    ELSE IF ~IsSome(n.val) THEN Returned(MissingArgument)
    ELSE Arm(Ok(Scale(Unwrap(n.val))), Rest(tokens))

\* match (head, modifier), arm by arm in the order written.
MatchHead(head, modifier, tokens) ==
    IF head = Word_exit THEN Arm(Ok(Exit), tokens)
    ELSE IF head = Word_help THEN Arm(Ok(Help), tokens)
    ELSE IF head = Word_date /\ modifier = "Edit" THEN DateArm(tail(tokens))
    ELSE IF head = Word_name /\ modifier = "Sub" THEN Arm(Ok(NameSub), tokens)
    ELSE IF head = Word_name THEN Arm(Ok(NameEdit(tail(tokens))), <<>>)
    ELSE IF head = Word_desc /\ modifier = "Sub"
         THEN DescSubArm(parse_next_usize(tokens), tokens)
    ELSE IF head = Word_desc /\ modifier = "Add"
         THEN Arm(Ok(DescAdd(tail(tokens))), <<>>)
    ELSE IF head = Word_desc /\ modifier = "Edit"
         THEN DescEditArm(parse_next_usize(tokens), tokens)
    ELSE IF head = Word_line /\ modifier = "Sub" THEN Arm(Ok(LineEdit(None)), tokens)
    ELSE IF head = Word_line THEN LineArm(parse_next_f64(tokens), tokens)
    ELSE IF head = Word_offset /\ modifier = "Sub" THEN Arm(Ok(Offset(F(0))), tokens)
    ELSE IF head = Word_offset THEN OffsetArm(parse_next_f64(tokens), tokens)
    ELSE IF head = Word_scale /\ modifier = "Sub" THEN Arm(Ok(Scale(F(1))), tokens)
    ELSE IF head = Word_scale THEN ScaleArm(parse_next_f64(tokens), tokens)
    ELSE Arm(Err(UnknownCommand(head, tail(tokens))), <<>>)

\* The end of from_str: a `?` has returned already, or the tokens are used
\* up, or they are not.
Leftover(head, arm) ==
    IF arm.returned THEN arm.result
    ELSE IF Len(arm.left) = 0 THEN arm.result
    ELSE Err(ExtraArgument(head, join(arm.left, <<" ">>)))

WithHead(first, mh, tokens) == Leftover(mh[2], MatchHead(mh[2], mh[1], Rest(tokens)))
WithWholeHead(first, mh, tokens) == Leftover(first, MatchHead(mh[2], mh[1], Rest(tokens)))

Tokens(tokens) ==
    IF Len(tokens) = 0 THEN Err(MissingCommand)
    ELSE WithHead(tokens[1], get_mod(tokens[1]), tokens)
TokensWholeHead(tokens) ==
    IF Len(tokens) = 0 THEN Err(MissingCommand)
    ELSE WithWholeHead(tokens[1], get_mod(tokens[1]), tokens)

\* Mutant of from_str: ExtraArgument carries the first token as it was
\* written.
Command_from_str_whole_head(query_text) ==
    TokensWholeHead(split_ascii_whitespace(query_text))

\* impl FromStr for Command.
Command_from_str(query_text) == Tokens(split_ascii_whitespace(query_text))

(***************************************************************************)
(* SpecParse: a command line, as `edit FILE PATH COMMAND...` hands it to    *)
(* str::parse::<Command>, made of words laid out with some whitespace.      *)
(***************************************************************************)
Word_booty == <<"b", "o", "o", "t", "y">>
Word_hello == <<"h", "e", "l", "l", "o">>
Word_5 == <<"5">>
Word_2p5 == <<"2", ".", "5">>
Word_dash == <<"-">>
Word_1_1_1990 == <<"1", "/", "1", "/", "1", "9", "9", "0">>
Word_01_01_1990 == <<"0", "1", "/", "0", "1", "/", "1", "9", "9", "0">>
Word_1_1_1991 == <<"1", "/", "1", "/", "1", "9", "9", "1">>
Word_0_0 == <<"0", ":", "0">>
Word_00_30 == <<"0", "0", ":", "3", "0">>

Heads == {Word_exit, Word_help, Word_date, Word_name, Word_desc, Word_line,
          Word_offset, Word_scale, Word_booty}
FirstWords == {m \o h : m \in {<<>>, <<"+">>, <<"-">>}, h \in Heads}
ArgWords == {Word_5, Word_2p5, Word_hello, Word_1_1_1990, Word_0_0}
DayWords == {Word_1_1_1990, Word_01_01_1990, Word_1_1_1991}
TimeWords == {Word_0_0, Word_00_30}

\* Word sequences of exactly n words of S.
RECURSIVE SeqsOfLen(_, _)
SeqsOfLen(S, n) ==
    IF n = 0 THEN {<<>>} ELSE {<<x>> \o t : x \in S, t \in SeqsOfLen(S, n - 1)}

CommandLines ==
    {<<>>}
    \cup {<<f>> \o a : f \in FirstWords,
                      a \in UNION {SeqsOfLen(ArgWords, n) : n \in 0..MaxArgs}}
    \cup {<<Word_date, d1, t1, Word_dash, d2, t2>> :
            d1 \in DayWords, t1 \in TimeWords, d2 \in DayWords, t2 \in TimeWords}
    \cup {<<Word_date, d1, t1>> : d1 \in DayWords, t1 \in TimeWords}

\* The whitespace between the words and around the line.
Layouts == {[sep |-> <<" ">>, pad |-> <<>>],
            [sep |-> <<" ", " ">>, pad |-> <<" ">>],
            [sep |-> <<"\t">>, pad |-> <<>>]}

Text(words, layout) == layout.pad \o join(words, layout.sep) \o layout.pad

InitParse ==
    /\ doc = Blank(from_vec(<<>>))
    /\ build = "release"
    /\ op = "init"
    /\ arg \in {[words |-> w, layout |-> l] : w \in CommandLines, l \in Layouts}
    /\ res = <<>>
    /\ fs = <<>>

\* query.parse::<Command>() on the text of the drawn command line.
Parse ==
    /\ op = "init"
    /\ op' = "parse"
    /\ res' = Command_from_str(Text(arg.words, arg.layout))
    /\ UNCHANGED <<doc, build, arg, fs>>

NextParse == Parse

SpecParse == InitParse /\ [][NextParse]_vars

(***************************************************************************)
(* The grammar table, read word by word.                                   *)
(***************************************************************************)
Plus(w) == <<"+">> \o w
Minus(w) == <<"-">> \o w

\* The values the number words stand for.
IsFloatWord(w) == w \in {Word_5, Word_2p5}
FloatOf(w) == IF w = Word_5 THEN F(5) ELSE Rat(5, 2)
IsIntWord(w) == w = Word_5
IntOf(w) == 5

\* The instants the day and time words stand for, in minutes since the
\* epoch: 01/01/1990 is day 7305 and 01/01/1991 day 7670.
DtOf(day, time) ==
    (IF day = Word_1_1_1991 THEN 7670 ELSE 7305) * 1440
    + (IF time = Word_00_30 THEN 30 ELSE 0)

\* The free-form tail: the words with one space between them, absent when
\* there is no word.
RECURSIVE Spaced(_)
Spaced(ws) ==
    IF Len(ws) = 1 THEN ws[1] ELSE ws[1] \o <<" ">> \o Spaced(Rest(ws))
TailOf(ws) == IF Len(ws) = 0 THEN None ELSE Some(Spaced(ws))

\* The command the grammar table gives for a well-formed line, None for a
\* line the table does not cover.
Expected(ws) ==
    IF Len(ws) = 0 THEN None ELSE
    LET h == ws[1]
        r == Rest(ws)
        n == Len(r)
    IN  IF h \in {Word_name, Plus(Word_name)} THEN Some(NameEdit(TailOf(r)))
        ELSE IF h = Minus(Word_name) /\ n = 0 THEN Some(NameSub)
        ELSE IF h = Plus(Word_desc) THEN Some(DescAdd(TailOf(r)))
        ELSE IF h = Word_desc /\ n >= 1 /\ IsIntWord(r[1])
             THEN Some(DescEdit(IntOf(r[1]), TailOf(Rest(r))))
        ELSE IF h = Minus(Word_desc) /\ n = 1 /\ IsIntWord(r[1])
             THEN Some(DescSub(IntOf(r[1])))
        ELSE IF h \in {Word_line, Plus(Word_line)} /\ n = 0
             THEN Some(LineEdit(Some(None)))
        ELSE IF h \in {Word_line, Plus(Word_line)} /\ n = 1 /\ IsFloatWord(r[1])
             THEN Some(LineEdit(Some(Some(FloatOf(r[1])))))
        ELSE IF h = Minus(Word_line) /\ n = 0 THEN Some(LineEdit(None))
        ELSE IF h \in {Word_offset, Plus(Word_offset)} /\ n = 1 /\ IsFloatWord(r[1])
             THEN Some(Offset(FloatOf(r[1])))
        ELSE IF h = Minus(Word_offset) /\ n = 0 THEN Some(Offset(F(0)))
        ELSE IF h \in {Word_scale, Plus(Word_scale)} /\ n = 1 /\ IsFloatWord(r[1])
             THEN Some(Scale(FloatOf(r[1])))
        ELSE IF h = Minus(Word_scale) /\ n = 0 THEN Some(Scale(F(1)))
        ELSE IF h = Word_date /\ n = 2 /\ r[1] \in DayWords /\ r[2] \in TimeWords
             THEN Some(DateEdit(MkDates(DtOf(r[1], r[2]), None)))
        ELSE IF /\ h = Word_date
                /\ n = 5
                /\ r[1] \in DayWords
                /\ r[2] \in TimeWords
                /\ r[3] = Word_dash
                /\ r[4] \in DayWords
                /\ r[5] \in TimeWords
             THEN Some(DateEdit(MkDates(DtOf(r[1], r[2]), Some(DtOf(r[4], r[5])))))
        ELSE IF h = Word_exit /\ n = 0 THEN Some(Exit)
        ELSE IF h = Word_help /\ n = 0 THEN Some(Help)
        ELSE None

\* C3: for every well-formed command line, parsing returns the command of
\* the grammar table: a bare head and the head with '+' give the same
\* command for name, line, offset and scale; the '-' forms give NameSub,
\* LineEdit(None), Offset(0.0), Scale(1.0) and DescSub(N); '+desc', 'desc N',
\* 'line [x]' and 'date ...' give DescAdd, DescEdit, LineEdit(Some(x?)) and
\* DateEdit; a tail is the remaining words joined by single spaces, absent
\* when no word remains.
C3_ParseGrammarTable ==
    (op = "parse" /\ IsSome(Expected(arg.words))) =>
        res = Ok(Unwrap(Expected(arg.words)))

\* 'desc 5 hello 2.5', laid out with wider whitespace, has been parsed into
\* DescEdit(5, Some("hello 2.5")).
C3_Witness ==
    /\ op = "parse"
    /\ arg.words = <<Word_desc, Word_5, Word_hello, Word_2p5>>
    /\ arg.layout.sep = <<" ", " ">>
    /\ res = Ok(DescEdit(5, Some(Word_hello \o <<" ">> \o Word_2p5)))

(***************************************************************************)
(* Evaluation: the setters of Node and Event, Command::eval_node,          *)
(* eval_event and eval_query.  An evaluation gives its EvalResult and the  *)
(* target as it leaves it.                                                 *)
(***************************************************************************)
\* enum EvalError.
NotApplicable(kind, command) ==
    [error |-> "NotApplicable", kind |-> kind, command |-> command]
IndexError(index, len) == [error |-> "IndexError", index |-> index, len |-> len]

OkUnit == Ok(<<>>)
Evaluated(outcome, target) == [outcome |-> outcome, target |-> target]

\* Node::set_name, set_offset, set_scale, set_line.
\* Mutant of Node::set_name: the node is built anew around the name and
\* loses its children.
Node_set_name_rebuilt(node, name) == [node EXCEPT !.name = name, !.children = <<>>]

Node_set_name(node, name) == [node EXCEPT !.name = name]
set_offset(node, y) == [node EXCEPT !.offset = y]
set_scale(node, y) == [node EXCEPT !.y_scale = y]

\* Mutant of set_line: clearing a line that is not there draws one.
set_line_toggling(node, line) ==
    [node EXCEPT !.line = IF line = None /\ node.line = None THEN Some(None)
                          ELSE line]

set_line(node, line) == [node EXCEPT !.line = line]

\* Event::set_name, set_dates, add_description.
Event_set_name(event, new) == [event EXCEPT !.name = new]
set_dates(event, new) == [event EXCEPT !.datetime = new]
add_description(event, new) ==
    [event EXCEPT !.descriptions = Append(event.descriptions, new)]

\* Vec::remove(index), 0-based.
Remove(list, index) ==
    SubSeq(list, 1, index) \o SubSeq(list, index + 2, Len(list))

\* Event::change_description.
change_description(event, index, new) ==
    IF index < Len(event.descriptions)
    THEN Evaluated(OkUnit, [event EXCEPT !.descriptions[index + 1] = new])
    ELSE Evaluated(Err(IndexError(index, Len(event.descriptions))), event)

\* Mutant of delete_description: an index equal to the length gets through.
delete_description_off_by_one(event, index) ==
    IF index <= Len(event.descriptions)
    THEN Evaluated(OkUnit,
                   [event EXCEPT !.descriptions = Remove(event.descriptions, index)])
    ELSE Evaluated(Err(IndexError(index, Len(event.descriptions))), event)

\* Event::delete_description.
delete_description(event, index) ==
    IF index < Len(event.descriptions)
    THEN Evaluated(OkUnit,
                   [event EXCEPT !.descriptions = Remove(event.descriptions, index)])
    ELSE Evaluated(Err(IndexError(index, Len(event.descriptions))), event)

\* Mutant of eval_node: DateEdit is not rejected but taken for done.
eval_node_accepts_date(self, node) ==
    CASE self.cmd \in {"Exit", "Help"} ->
            Evaluated(Err(NotApplicable("Event", self)), node)
      [] self.cmd = "DateEdit" -> Evaluated(OkUnit, node)
      [] self.cmd = "NameSub" -> Evaluated(OkUnit, Node_set_name(node, None))
      [] self.cmd = "NameEdit" -> Evaluated(OkUnit, Node_set_name(node, self.name))
      [] self.cmd = "LineEdit" -> Evaluated(OkUnit, set_line(node, self.line))
      [] self.cmd = "Offset" -> Evaluated(OkUnit, set_offset(node, self.n))
      [] self.cmd = "Scale" -> Evaluated(OkUnit, set_scale(node, self.n))
      [] self.cmd \in {"DescAdd", "DescSub", "DescEdit"} ->
            Evaluated(Err(NotApplicable("Node", self)), node)

\* Command::eval_node.
eval_node(self, node) ==
    CASE self.cmd \in {"Exit", "Help", "DateEdit"} ->
            Evaluated(Err(NotApplicable("Event", self)), node)
      [] self.cmd = "NameSub" -> Evaluated(OkUnit, Node_set_name(node, None))
      [] self.cmd = "NameEdit" -> Evaluated(OkUnit, Node_set_name(node, self.name))
      [] self.cmd = "LineEdit" -> Evaluated(OkUnit, set_line(node, self.line))
      [] self.cmd = "Offset" -> Evaluated(OkUnit, set_offset(node, self.n))
      [] self.cmd = "Scale" -> Evaluated(OkUnit, set_scale(node, self.n))
      [] self.cmd \in {"DescAdd", "DescSub", "DescEdit"} ->
            Evaluated(Err(NotApplicable("Node", self)), node)

\* Mutant of eval_event: DescEdit without a tail checks the index as
\* change_description does.
eval_event_checking_index(self, event) ==
    CASE self.cmd \in {"Exit", "Help", "Offset", "Scale", "NameSub", "LineEdit"} ->
            Evaluated(Err(NotApplicable("Event", self)), event)
      [] self.cmd = "NameEdit" ->
            IF IsSome(self.name)
            THEN Evaluated(OkUnit, Event_set_name(event, Unwrap(self.name)))
            ELSE Evaluated(Err(NotApplicable("Node", self)), event)
      [] self.cmd = "DescAdd" ->
            IF IsSome(self.text)
            THEN Evaluated(OkUnit, add_description(event, Unwrap(self.text)))
            ELSE Evaluated(OkUnit, event)
      [] self.cmd = "DescSub" -> delete_description(event, self.index)
      [] self.cmd = "DescEdit" ->
            IF IsSome(self.text)
            THEN change_description(event, self.index, Unwrap(self.text))
            ELSE IF self.index < Len(event.descriptions)
            THEN Evaluated(OkUnit, event)
            ELSE Evaluated(Err(IndexError(self.index, Len(event.descriptions))), event)
      [] self.cmd = "DateEdit" -> Evaluated(OkUnit, set_dates(event, self.dates))

\* Command::eval_event.  (The two arms that only print a TODO leave the
\* event alone.)
eval_event(self, event) ==
    CASE self.cmd \in {"Exit", "Help", "Offset", "Scale", "NameSub", "LineEdit"} ->
            Evaluated(Err(NotApplicable("Event", self)), event)
      [] self.cmd = "NameEdit" ->
            IF IsSome(self.name)
            THEN Evaluated(OkUnit, Event_set_name(event, Unwrap(self.name)))
            ELSE Evaluated(Err(NotApplicable("Node", self)), event)
      [] self.cmd = "DescAdd" ->
            IF IsSome(self.text)
            THEN Evaluated(OkUnit, add_description(event, Unwrap(self.text)))
            ELSE Evaluated(OkUnit, event)
      [] self.cmd = "DescSub" -> delete_description(event, self.index)
      [] self.cmd = "DescEdit" ->
            IF IsSome(self.text)
            THEN change_description(event, self.index, Unwrap(self.text))
            ELSE Evaluated(OkUnit, event)
      [] self.cmd = "DateEdit" -> Evaluated(OkUnit, set_dates(event, self.dates))

\* Command::eval_query, on the value the Query refers to.
eval_query(self, variant, target) ==
    IF variant = "Node" THEN eval_node(self, target) ELSE eval_event(self, target)

\* The tree with the value at a place replaced: what a write through the
\* &mut reference of a Query leaves.
RECURSIVE Replaced(_, _, _)
Replaced(v, place, new) ==
    IF Len(place) = 0 THEN new
    ELSE [v EXCEPT !.children[place[1] + 1] =
                      Replaced(v.children[place[1] + 1], Rest(place), new)]

(***************************************************************************)
(* SpecEval: a path is looked up in the document's tree and a command is   *)
(* evaluated on the Query found, as the edit subcommand does between       *)
(* reading and writing the file.                                           *)
(***************************************************************************)
\* An event with two descriptions.
EvNoted ==
    [type |-> "Event", name |-> <<"B">>,
     descriptions |-> <<Word_hello, Word_booty>>, datetime |-> MkDates(1, None)]

NamedStyle == <<Some(Word_hello), F(1), Rat(1, 2), Some(None)>>

EvalTrees == Trees(MaxEvalSize, {EvA, EvNoted}, {DefaultStyle, NamedStyle})

\* Paths without a zero index.
EvalPaths == SeqsUpTo(1 .. 2, MaxEvalPathLen)

DescIndices == {0, 1, 2}
Tails == {None, Some(Word_hello \o <<" ">> \o Word_2p5)}

EvalCommands ==
    {Exit, Help, NameSub, Offset(Rat(5, 2)), Scale(Rat(5, 2)),
     DateEdit(MkDates(3, Some(1)))}
    \cup {NameEdit(t) : t \in Tails}
    \cup {DescAdd(t) : t \in Tails}
    \cup {DescSub(i) : i \in DescIndices}
    \cup {DescEdit(i, t) : i \in DescIndices, t \in Tails}
    \cup {LineEdit(l) : l \in {None, Some(None), Some(Some(F(5)))}}

InitEval ==
    /\ doc \in {Blank(t) : t \in EvalTrees}
    /\ build = "release"
    /\ op = "init"
    /\ arg = <<>>
    /\ res = <<>>
    /\ fs = <<>>

\* saga.get_data_mut().query(path)? and then command.eval_query(&mut query)?
EvalQuery(path, command) ==
    /\ op = "init"
    /\ op' = "eval"
    /\ arg' = [path |-> path, command |-> command, before |-> doc]
    /\ LET found == query(doc.data, path)
       IN IF found.tag = "Query"
          THEN LET done == eval_query(command, found.variant,
                                      Deref(doc.data, found.place))
               IN /\ res' = [query |-> found, outcome |-> done.outcome]
                  /\ doc' = [doc EXCEPT
                               !.data = Replaced(doc.data, found.place, done.target)]
          ELSE /\ res' = [query |-> found]
               /\ doc' = doc
    /\ UNCHANGED <<build, fs>>

\* The same path and command once more, on the document the first
\* evaluation left.
EvalAgain ==
    /\ op = "eval"
    /\ res.query.tag = "Query"
    /\ op' = "again"
    /\ arg' = [path |-> arg.path, command |-> arg.command,
               before |-> arg.before, once |-> doc]
    /\ LET found == query(doc.data, arg.path)
           done == eval_query(arg.command, found.variant,
                              Deref(doc.data, found.place))
       IN  /\ res' = [query |-> found, outcome |-> done.outcome,
                      first |-> res.outcome]
           /\ doc' = [doc EXCEPT
                        !.data = Replaced(doc.data, found.place, done.target)]
    /\ UNCHANGED <<build, fs>>

NextEval ==
    \/ \E path \in EvalPaths, command \in EvalCommands : EvalQuery(path, command)
    \/ EvalAgain

SpecEval == InitEval /\ [][NextEval]_vars

\* A command has been evaluated on a target of the given kind.
EvaluatedOn(variant) ==
    /\ op = "eval"
    /\ res.query.tag = "Query"
    /\ res.query.variant = variant

IsNotApplicable(outcome) == ~outcome.ok /\ outcome.err.error = "NotApplicable"

\* The grammar table's column of rejections.
NodeRejects == {"DescAdd", "DescEdit", "DescSub", "DateEdit", "Exit", "Help"}
EventRejects == {"NameSub", "LineEdit", "Offset", "Scale", "Exit", "Help"}
RejectedBy(variant, command) ==
    IF variant = "Node" THEN command.cmd \in NodeRejects
    ELSE command.cmd \in EventRejects \/ command = NameEdit(None)

\* What the grammar table says an accepted command leaves of a Node.
NodeAfter(node, command) ==
    CASE command.cmd = "NameSub" -> [node EXCEPT !.name = None]
      [] command.cmd = "NameEdit" -> [node EXCEPT !.name = command.name]
      [] command.cmd = "LineEdit" -> [node EXCEPT !.line = command.line]
      [] command.cmd = "Offset" -> [node EXCEPT !.offset = command.n]
      [] command.cmd = "Scale" -> [node EXCEPT !.y_scale = command.n]

\* C4: a command evaluated on a Node succeeds and changes the field of its
\* row when it is NameSub, NameEdit, LineEdit, Offset or Scale, and returns
\* NotApplicable when it is DescAdd, DescEdit, DescSub, DateEdit, Exit or
\* Help; a command evaluated on an Event returns NotApplicable when it is
\* NameSub, NameEdit without a tail, LineEdit, Offset, Scale, Exit or Help,
\* and never NotApplicable when it is NameEdit with a tail, DescAdd,
\* DescEdit, DescSub or DateEdit.  A rejected command leaves the document as
\* it was.
C4_EvalApplicability ==
    \A variant \in {"Node", "Event"} :
        EvaluatedOn(variant) =>
            LET command == arg.command
                before == Deref(arg.before.data, res.query.place)
                after == Deref(doc.data, res.query.place)
            IN IF RejectedBy(variant, command)
               THEN IsNotApplicable(res.outcome) /\ doc = arg.before
               ELSE IF variant = "Node"
                    THEN res.outcome = OkUnit /\ after = NodeAfter(before, command)
                    ELSE /\ ~IsNotApplicable(res.outcome)
                         /\ (command.cmd = "NameEdit" =>
                                after.name = Unwrap(command.name))
                         /\ (command.cmd = "DateEdit" =>
                                after.datetime = command.dates)

\* DateEdit was evaluated on a Node and rejected; the node keeps its place.
C4_Witness ==
    /\ EvaluatedOn("Node")
    /\ arg.command.cmd = "DateEdit"
    /\ Len(res.query.place) = 1
    /\ IsNotApplicable(res.outcome)

\* C5: whenever evaluation returns NotApplicable(kind, command), kind is the
\* kind of the target the command was evaluated against and command is the
\* command that was evaluated.
C5_NotApplicableNamesTarget ==
    \A variant \in {"Node", "Event"} :
        (EvaluatedOn(variant) /\ IsNotApplicable(res.outcome)) =>
            /\ res.outcome.err.kind = variant
            /\ res.outcome.err.command = arg.command

(***************************************************************************)
(* SpecRange: Node::range and Node::is_empty on a generated tree whose     *)
(* events have an end, have none, or end before they start (from_str       *)
(* accepts such dates).                                                    *)
(***************************************************************************)
EvBackwards == NewEvent(<<"C">>, MkDates(3, Some(1)))

RangeTrees == Trees(MaxSize, {EvA, EvB, EvBackwards}, {DefaultStyle})

InitRange ==
    /\ doc \in {Blank(t) : t \in RangeTrees}
    /\ build = "release"
    /\ op = "init"
    /\ arg = <<>>
    /\ res = <<>>
    /\ fs = <<>>

Range == Ran("range", <<>>, range(doc.data))
IsEmpty == Ran("is_empty", <<>>, is_empty(doc.data))

NextRange ==
    \/ Range
    \/ IsEmpty

SpecRange == InitRange /\ [][NextRange]_vars

\* The start stamps and the present end stamps of the events of a tree.
StampsIn(root) ==
    UNION {LET dates == Deref(root, p).datetime
           IN  {timestamp(dates.start)} \cup
               {timestamp(dates.end[k]) : k \in 1..Len(dates.end)} :
           p \in EventPlaces(root)}

\* C11: range() returns the least and the greatest of the start stamps and
\* the present end stamps of the events of the tree, and (i64::MAX,
\* i64::MIN) for a tree without events; is_empty() is true exactly for a
\* tree without events.
C11_RangeIsMinMax ==
    LET all == StampsIn(doc.data)
    IN  /\ op = "range" =>
              IF EventPlaces(doc.data) = {}
              THEN res = <<I64Max, I64Min>>
              ELSE /\ res[1] \in all /\ \A s \in all : res[1] <= s
                   /\ res[2] \in all /\ \A s \in all : res[2] >= s
        /\ op = "is_empty" => (res <=> EventPlaces(doc.data) = {})

\* range has run on a tree whose greatest stamp is the start of an event
\* that ends before it starts, with an event without end beside it.
C11_Witness ==
    /\ op = "range"
    /\ res = <<timestamp(1), timestamp(3)>>
    /\ \E p \in EventPlaces(doc.data) : Deref(doc.data, p) = EvB
    /\ \E p \in EventPlaces(doc.data) : Deref(doc.data, p) = EvBackwards
    /\ Cardinality(EventPlaces(doc.data)) = 2

\* C12: draw returns a scene without primitives (the new, empty Document)
\* whenever the tree holds no Event or the least and the greatest stamp of
\* its events coincide; no event shape and no line is emitted then.
C12_DrawEmptyScene ==
    (/\ op = "draw"
     /\ \/ EventPlaces(doc.data) = {}
        \/ \A s, t \in StampsIn(doc.data) : s = t) =>
        /\ res.children = <<>>
        /\ res = NewDocument

\* draw has run on a tree with a lined Node and point events that all share
\* one stamp, and on nothing else: the range has zero width.
C12_Witness ==
    /\ op = "draw"
    /\ EventPlaces(doc.data) # {}
    /\ \A p \in EventPlaces(doc.data) : Deref(doc.data, p) = EvB
    /\ \E p \in NodePlaces(doc.data) : IsSome(Deref(doc.data, p).line)
    /\ res = NewDocument

(***************************************************************************)
(* The errors of the command language, read off the words of the line.     *)
(***************************************************************************)
\* The first word without its modifier, and the modifier.
Stripped(w) == IF w[1] \in {"+", "-"} THEN Rest(w) ELSE w
ModifierOf(w) == IF w[1] \in {"+", "-"} THEN w[1] ELSE ""

KnownHeads == {Word_exit, Word_help, Word_name, Word_desc, Word_line,
               Word_offset, Word_scale, Word_date}

IsError(result, error) == ~result.ok /\ result.err.error = error

\* The words left over by a command that takes no tail and whose scalars
\* parsed, <<>> when the line is no such command or leaves nothing over.
LeftOver(ws) ==
    LET h == Stripped(ws[1])
        m == ModifierOf(ws[1])
        r == Rest(ws)
    IN  IF h \in {Word_exit, Word_help} THEN r
        ELSE IF m = "-" /\ h \in {Word_name, Word_line, Word_offset, Word_scale}
             THEN r
        ELSE IF m = "-" /\ h = Word_desc /\ Len(r) >= 1 /\ IsIntWord(r[1])
             THEN Rest(r)
        ELSE IF /\ m # "-"
                /\ h \in {Word_line, Word_offset, Word_scale}
                /\ Len(r) >= 1
                /\ IsFloatWord(r[1])
             THEN Rest(r)
        ELSE <<>>

\* C13: parsing returns ExtraArgument(head, rest) exactly when the line is a
\* command without free-form tail (exit, help, -name, -desc N, -line,
\* line [x], -offset, offset v, -scale, scale v) whose scalars parsed and
\* words remain after them; head is the first word without its modifier
\* and rest the remaining words joined by single spaces.
C13_ExtraArgument ==
    (op = "parse" /\ Len(arg.words) > 0) =>
        LET left == LeftOver(arg.words)
        IN  /\ IsError(res, "ExtraArgument") <=> Len(left) > 0
            /\ Len(left) > 0 =>
                 res = Err(ExtraArgument(Stripped(arg.words[1]), Spaced(left)))

\* '+line 5 hello 2.5' was parsed into ExtraArgument("line", "hello 2.5").
C13_Witness ==
    /\ op = "parse"
    /\ arg.words = <<Plus(Word_line), Word_5, Word_hello, Word_2p5>>
    /\ res = Err(ExtraArgument(Word_line, Word_hello \o <<" ">> \o Word_2p5))

\* C14: parsing returns UnknownCommand(head, rest) exactly when the first
\* word without its modifier is none of exit, help, name, desc, line,
\* offset, scale, date; head is that word and rest all remaining words
\* joined by single spaces, absent when there are none.
C14_UnknownCommand ==
    (op = "parse" /\ Len(arg.words) > 0) =>
        LET h == Stripped(arg.words[1])
        IN  /\ IsError(res, "UnknownCommand") <=> h \notin KnownHeads
            /\ h \notin KnownHeads =>
                 res = Err(UnknownCommand(h, TailOf(Rest(arg.words))))

\* The scalar a command cannot do without is missing: nothing follows the
\* head.
LacksScalar(ws) ==
    /\ Len(ws) = 1
    /\ \/ ws[1] \in {Word_offset, Plus(Word_offset), Word_scale, Plus(Word_scale)}
       \/ ws[1] \in {Word_desc, Minus(Word_desc), Word_date}

\* C15: parsing returns MissingCommand exactly when the line has no word
\* (it is empty or whitespace only) and MissingArgument exactly when
\* offset, +offset, scale, +scale, desc, -desc or date is given with no
\* word after it; line, name and +desc alone succeed.
C15_MissingCommandOrArgument ==
    op = "parse" =>
        /\ IsError(res, "MissingCommand") <=> Len(arg.words) = 0
        /\ Len(arg.words) = 0 => res = Err(MissingCommand)
        /\ IsError(res, "MissingArgument") <=>
              (Len(arg.words) > 0 /\ LacksScalar(arg.words))
        /\ (Len(arg.words) > 0 /\ LacksScalar(arg.words)) =>
              res = Err(MissingArgument)
        /\ arg.words = <<Word_line>> => res = Ok(LineEdit(Some(None)))
        /\ arg.words = <<Word_name>> => res = Ok(NameEdit(None))
        /\ arg.words = <<Plus(Word_desc)>> => res = Ok(DescAdd(None))

\* '-desc' alone, between blanks, was parsed into MissingArgument.
C15_Witness ==
    /\ op = "parse"
    /\ arg.words = <<Minus(Word_desc)>>
    /\ Len(arg.layout.pad) > 0
    /\ res = Err(MissingArgument)

\* C14 as amended: parsing returns UnknownCommand(head, rest) exactly when
\* the first word without its modifier is none of exit, help, name, desc,
\* line, offset, scale, date, or is date carrying a '+' or a '-'; head is
\* the word without its modifier and rest all remaining words joined by
\* single spaces, absent when there are none.
C14_UnknownCommandOrModifiedDate ==
    (op = "parse" /\ Len(arg.words) > 0) =>
        LET h == Stripped(arg.words[1])
            unknown == \/ h \notin KnownHeads
                       \/ h = Word_date /\ ModifierOf(arg.words[1]) # ""
        IN  /\ IsError(res, "UnknownCommand") <=> unknown
            /\ unknown => res = Err(UnknownCommand(h, TailOf(Rest(arg.words))))

\* '+booty hello 2.5' was parsed into UnknownCommand("booty", "hello 2.5").
C14_Witness ==
    /\ op = "parse"
    /\ arg.words = <<Plus(Word_booty), Word_hello, Word_2p5>>
    /\ res = Err(UnknownCommand(Word_booty, Some(Word_hello \o <<" ">> \o Word_2p5)))

\* C16: on an Event with descriptions d[0..len-1], DescSub(i) with i < len
\* removes d[i] and keeps the others in order, DescEdit(i, Some(s)) with
\* i < len puts s in the place of d[i] and keeps the others, and with
\* i >= len both return IndexError{index: i, len} and leave the event as it
\* was (indices 0-based; d[i] is the model's d[i + 1]).
C16_DescriptionIndex ==
    (/\ EvaluatedOn("Event")
     /\ \/ arg.command.cmd = "DescSub"
        \/ arg.command.cmd = "DescEdit" /\ IsSome(arg.command.text)) =>
        LET command == arg.command
            i == command.index
            before == Deref(arg.before.data, res.query.place)
            after == Deref(doc.data, res.query.place)
            d == before.descriptions
            len == Len(d)
        IN  IF i >= len
            THEN res.outcome = Err(IndexError(i, len)) /\ doc = arg.before
            ELSE /\ res.outcome = OkUnit
                 /\ command.cmd = "DescSub" =>
                      after = [before EXCEPT !.descriptions =
                                 [k \in 1..(len - 1) |->
                                    IF k <= i THEN d[k] ELSE d[k + 1]]]
                 /\ command.cmd = "DescEdit" =>
                      after = [before EXCEPT !.descriptions =
                                 [k \in 1..len |->
                                    IF k = i + 1 THEN Unwrap(command.text)
                                    ELSE d[k]]]

\* DescSub(0) has removed the first of two descriptions of an event.
C16_Witness ==
    /\ EvaluatedOn("Event")
    /\ arg.command = DescSub(0)
    /\ Deref(arg.before.data, res.query.place).descriptions = <<Word_hello, Word_booty>>
    /\ Deref(doc.data, res.query.place).descriptions = <<Word_booty>>
    /\ res.outcome = OkUnit

\* C17: LineEdit(None) evaluated twice on a Node leaves the document that
\* evaluating it once leaves, and so does NameSub: after the first
\* evaluation the line (the name) is absent, and the second succeeds too and
\* changes nothing.
C17_ClearingIsIdempotent ==
    (/\ op = "again"
     /\ res.query.variant = "Node"
     /\ arg.command \in {LineEdit(None), NameSub}) =>
        LET once == Deref(arg.once.data, res.query.place)
        IN  /\ res.first = OkUnit
            /\ res.outcome = OkUnit
            /\ arg.command = LineEdit(None) => once.line = None
            /\ arg.command = NameSub => once.name = None
            /\ doc = arg.once

\* LineEdit(None) has been evaluated twice on a Node below the root that
\* had a line (and a name, which it keeps).
C17_Witness ==
    /\ op = "again"
    /\ res.query.variant = "Node"
    /\ Len(res.query.place) > 0
    /\ arg.command = LineEdit(None)
    /\ Deref(arg.before.data, res.query.place).line = Some(None)
    /\ Deref(doc.data, res.query.place).line = None
    /\ Deref(doc.data, res.query.place).name = Some(Word_hello)

\* A value without what hangs below it.
Fields(v) == IF IsNode(v) THEN [v EXCEPT !.children = <<>>] ELSE v

\* C18: evaluating a command on the target a path addresses changes fields
\* of that target only: the tree keeps its places, every value its kind and
\* every Node the number of its children, every value other than the target
\* keeps all its fields, and the document keeps its own.
C18_OnlyTargetChanges ==
    \A variant \in {"Node", "Event"} :
        EvaluatedOn(variant) =>
            LET old == arg.before.data
                new == doc.data
            IN  /\ Places(new) = Places(old)
                /\ \A p \in Places(old) :
                     /\ Deref(new, p).type = Deref(old, p).type
                     /\ IsNode(Deref(old, p)) =>
                          Len(Deref(new, p).children) = Len(Deref(old, p).children)
                     /\ p # res.query.place =>
                          Fields(Deref(new, p)) = Fields(Deref(old, p))
                /\ [doc EXCEPT !.data = old] = arg.before

\* A name was given to a Node below the root that holds an Event; the
\* document is another than before.
C18_Witness ==
    /\ EvaluatedOn("Node")
    /\ res.query.place = <<0>>
    /\ arg.command.cmd = "NameEdit"
    /\ IsSome(arg.command.name)
    /\ Len(Deref(doc.data, <<0>>).children) = 1
    /\ IsEvent(Deref(doc.data, <<0, 0>>))
    /\ doc # arg.before

(***************************************************************************)
(* Files and JSON: serde_json::to_string and from_str on the derived       *)
(* Serialize / Deserialize of SagaDoc, Node, Value and Event.  A JSON text *)
(* is the value it denotes: objects are records, arrays sequences.         *)
(***************************************************************************)
JNull == [json |-> "null"]
JNum(x) == [json |-> "number", v |-> x]
JStr(s) == [json |-> "string", v |-> s]

\* 01/01/1970 plus a number of days: the year and the days into it, then
\* the month and the days into it.
RECURSIVE YearOfDay(_, _)
YearOfDay(days, y) ==
    LET n == IF IsLeap(y) THEN 366 ELSE 365
    IN  IF days < n THEN <<y, days>> ELSE YearOfDay(days - n, y + 1)

RECURSIVE MonthOfDay(_, _, _)
MonthOfDay(y, days, m) ==
    IF days < DaysInMonth(y, m) THEN <<m, days>>
    ELSE MonthOfDay(y, days - DaysInMonth(y, m), m + 1)

Pad2(n) == <<DigitChars[(n \div 10) + 1], DigitChars[(n % 10) + 1]>>
Pad4(n) == Pad2(n \div 100) \o Pad2(n % 100)

\* NaiveDateTime::format(FORMAT).to_string(), for years 1970 to 9999.
format(dt) ==
    LET yd == YearOfDay(dt \div 1440, 1970)
        md == MonthOfDay(yd[1], yd[2], 1)
        minutes == dt % 1440
    IN  Pad2(md[2] + 1) \o <<"/">> \o Pad2(md[1]) \o <<"/">> \o Pad4(yd[1])
        \o <<" ">> \o Pad2(minutes \div 60) \o <<":">> \o Pad2(minutes % 60)

\* impl Display for Dates.
Dates_fmt(self) ==
    format(self.start) \o
    (IF IsSome(self.end) THEN <<" ", "-", " ">> \o format(Unwrap(self.end))
     ELSE <<>>)

\* Serialize for Option<String> and for Option<Option<f64>>: serde writes
\* None as null and Some(x) as x, at either level.
OptionString_to_json(o) == IF IsSome(o) THEN JStr(Unwrap(o)) ELSE JNull
Line_to_json(line) ==
    IF IsSome(line) /\ IsSome(Unwrap(line)) THEN JNum(Unwrap(Unwrap(line)))
    ELSE JNull

\* Deserialize for the same: null is the outer None.
OptionString_from_json(j) == IF j = JNull THEN None ELSE Some(j.v)
Line_from_json(j) == IF j = JNull THEN None ELSE Some(Some(j.v))

\* Serialize for Event, Node and Value (tagged with "type").
RECURSIVE Value_to_json(_)
Value_to_json(v) ==
    IF IsEvent(v)
    THEN [type |-> "Event", name |-> JStr(v.name),
          descriptions |-> [k \in 1..Len(v.descriptions) |-> JStr(v.descriptions[k])],
          datetime |-> JStr(Dates_fmt(v.datetime))]
    ELSE [type |-> "Node",
          children |-> [k \in 1..Len(v.children) |-> Value_to_json(v.children[k])],
          name |-> OptionString_to_json(v.name),
          style_override |-> OptionString_to_json(v.style_override),
          color_override |-> JNull,
          offset |-> JNum(v.offset), y_scale |-> JNum(v.y_scale),
          line |-> Line_to_json(v.line), graphs |-> <<>>]

\* Deserialize for Event, Node and Value: the value, or Invalid when a
\* datetime below does not parse.  (The root, a Node and not a Value, is
\* written without the tag; the tag it carries here is never read.)
Invalid == [type |-> "invalid"]

RECURSIVE Value_from_json(_)
Value_from_json(j) ==
    IF j.type = "Event"
    THEN LET dates == Dates_from_str(j.datetime.v)
         IN  IF ~dates.ok THEN Invalid
             ELSE [type |-> "Event", name |-> j.name.v,
                   descriptions |-> [k \in 1..Len(j.descriptions) |-> j.descriptions[k].v],
                   datetime |-> dates.val]
    ELSE LET kids == [k \in 1..Len(j.children) |-> Value_from_json(j.children[k])]
         IN  IF \E k \in 1..Len(kids) : kids[k] = Invalid THEN Invalid
             ELSE [type |-> "Node", children |-> kids,
                   name |-> OptionString_from_json(j.name),
                   style_override |-> OptionString_from_json(j.style_override),
                   color_override |-> None,
                   offset |-> j.offset.v, y_scale |-> j.y_scale.v,
                   line |-> Line_from_json(j.line), graphs |-> <<>>]

\* A text that is no JSON of a SagaDoc.
Garbage == [json |-> "garbage"]

\* saga_serialize: serde_json::to_string(&SagaDoc); it has no way to fail on
\* the documents of the model.
saga_serialize(input) ==
    Ok([x |-> JNum(input.x), y |-> JNum(input.y), padding |-> JNum(input.padding),
        color_schemes |-> <<>>, data |-> Value_to_json(input.data)])

\* saga_deserialize: serde_json::from_str::<SagaDoc>.
saga_deserialize(input) ==
    IF input = Garbage THEN Err("NotASagaDoc")
    ELSE LET data == Value_from_json(input.data)
         IN  IF data = Invalid THEN Err("NotASagaDoc")
             ELSE Ok(MkDoc(input.x.v, input.y.v, input.padding.v, <<>>, data))

\* A file that is not there or cannot be read.
NoFile == [json |-> "no file"]

\* open_file.
open_file(file_path) ==
    IF fs[file_path] = NoFile THEN Err("FileIO") ELSE Ok(fs[file_path])

\* str::split(":"): the pieces between the colons, empty ones too.
RECURSIVE split(_, _)
split(s, c) ==
    LET halves == split_once(s, c)
    IN  IF IsSome(halves)
        THEN <<Unwrap(halves)[1]>> \o split(Unwrap(halves)[2], c)
        ELSE <<s>>

\* Iterator::try_collect over the parsed pieces: the values, or the first
\* error.
RECURSIVE try_collect(_)
try_collect(results) ==
    IF Len(results) = 0 THEN Ok(<<>>)
    ELSE IF ~results[1].ok THEN results[1]
    ELSE LET rest == try_collect(Rest(results))
         IN  IF rest.ok THEN Ok(<<results[1].val>> \o rest.val) ELSE rest

\* saga::parse_to_int_path.
parse_to_int_path(query_text) ==
    IF Len(trim(query_text)) = 0 THEN Ok(<<>>)
    ELSE LET pieces == split(query_text, ":")
         IN  try_collect([k \in 1..Len(pieces) |-> parse_usize(trim(pieces[k]))])

(***************************************************************************)
(* SpecEdit: the edit subcommand, arg_edit, one statement at a time.  op   *)
(* is the statement that ran last, res holds the locals of arg_edit, the   *)
(* error it returned with if any, and the number of writes to the file.    *)
(***************************************************************************)
EditTrees == Trees(1, {EvNoted}, {DefaultStyle, NamedStyle})

\* What FILE may hold before the edit.
EditFiles ==
    {NoFile, Garbage} \cup {saga_serialize(Blank(t)).val : t \in EditTrees}

\* INT_LIST as typed.
EditPaths == {<<>>, <<"1">>, <<"1", ":", " ", "1">>, <<"2">>, <<"0">>, <<"x">>}

\* COMMAND... as typed, one word per argument.
EditCommandLines ==
    {<<Word_name, Word_hello>>, <<Minus(Word_line)>>, <<Word_line>>,
     <<Plus(Word_desc), Word_hello>>,
     <<Word_desc, Word_5, Word_hello>>, <<Word_offset, Word_2p5>>, <<Word_exit>>,
     <<Word_booty>>}

InitEdit ==
    /\ doc = <<>>
    /\ build \in {"debug", "release"}
    /\ op = "init"
    /\ fs \in [{"FILE"} -> EditFiles]
    /\ \E p \in EditPaths, c \in EditCommandLines :
          arg = [fp |-> "FILE", int_list |-> p, command |-> c, before |-> fs]
    /\ res = [error |-> None, writes |-> 0]

\* A statement ending in `?` (or panicking) has ended arg_edit.
Failed(error) ==
    /\ op' = "failed"
    /\ res' = [res EXCEPT !.error = Some(error)]
    /\ UNCHANGED <<doc, build, arg, fs>>

\* A statement has set a local of arg_edit.
Went(to, locals) ==
    /\ op' = to
    /\ res' = locals
    /\ UNCHANGED <<doc, build, arg, fs>>

\* let query = ...map(|s| saga::parse_to_int_path(s))...?;
EditParsePath ==
    /\ op = "init"
    /\ LET path == parse_to_int_path(arg.int_list)
       IN  IF path.ok
           THEN Went("path", [error |-> None, writes |-> 0, query |-> path.val])
           ELSE Failed("PathParse")

\* let command = ....join(" ").parse::<EvalCommand>()?;
EditParseCommand ==
    /\ op = "path"
    /\ LET command == Command_from_str(join(arg.command, <<" ">>))
       IN  IF command.ok
           THEN Went("command", [error |-> None, writes |-> 0, query |-> res.query,
                                 command |-> command.val])
           ELSE Failed(command.err)

\* let mut contents = open_file(fp)?;
EditOpenFile ==
    /\ op = "command"
    /\ LET contents == open_file(arg.fp)
       IN  IF contents.ok
           THEN Went("opened", [error |-> None, writes |-> 0, query |-> res.query,
                                command |-> res.command, contents |-> contents.val])
           ELSE Failed(contents.err)

\* let mut saga: SagaDoc = saga_deserialize(&contents)?;
EditDeserialize ==
    /\ op = "opened"
    /\ LET saga == saga_deserialize(res.contents)
       IN  IF saga.ok
           THEN /\ op' = "deserialized"
                /\ doc' = saga.val
                /\ UNCHANGED <<build, arg, res, fs>>
           ELSE Failed(saga.err)

\* let mut query = saga.get_data_mut().query(&query[..])?;
EditQuery ==
    /\ op = "deserialized"
    /\ LET found == query(doc.data, res.query)
       IN  IF found.tag = "Query"
           THEN Went("queried", [error |-> None, writes |-> 0, query |-> found,
                                 command |-> res.command, contents |-> res.contents])
           ELSE Failed(found)

\* Mutant of the next statement: the EvalResult is dropped, not tried.
EditEvalUntried ==
    /\ op = "queried"
    /\ LET done == eval_query(res.command, res.query.variant,
                              Deref(doc.data, res.query.place))
       IN  /\ op' = "evaluated"
           /\ doc' = [doc EXCEPT
                        !.data = Replaced(doc.data, res.query.place, done.target)]
           /\ UNCHANGED <<build, arg, res, fs>>

\* command.eval_query(&mut query)?;
EditEval ==
    /\ op = "queried"
    /\ LET done == eval_query(res.command, res.query.variant,
                              Deref(doc.data, res.query.place))
       IN  IF done.outcome.ok
           THEN /\ op' = "evaluated"
                /\ doc' = [doc EXCEPT
                             !.data = Replaced(doc.data, res.query.place, done.target)]
                /\ UNCHANGED <<build, arg, res, fs>>
           ELSE Failed(done.outcome.err)

\* contents = saga_serialize(&saga)?;
EditSerialize ==
    /\ op = "evaluated"
    /\ LET contents == saga_serialize(doc)
       IN  IF contents.ok
           THEN Went("serialized", [res EXCEPT !.contents = contents.val])
           ELSE Failed(contents.err)

\* write_to_file(fp, &contents)?; std::fs::write replaces what the file
\* holds, or fails, and then the file is as it was or cut short.
EditWrite ==
    /\ op = "serialized"
    /\ \/ /\ op' = "written"
          /\ fs' = [fs EXCEPT ![arg.fp] = res.contents]
          /\ res' = [res EXCEPT !.writes = @ + 1]
       \/ /\ op' = "failed"
          /\ fs' \in {fs, [fs EXCEPT ![arg.fp] = Garbage]}
          /\ res' = [res EXCEPT !.writes = @ + 1, !.error = Some("FileIO")]
    /\ UNCHANGED <<doc, build, arg>>

NextEdit ==
    \/ EditParsePath
    \/ EditParseCommand
    \/ EditOpenFile
    \/ EditDeserialize
    \/ EditQuery
    \/ EditEval
    \/ EditSerialize
    \/ EditWrite

SpecEdit == InitEdit /\ [][NextEdit]_vars

\* Every statement of arg_edit before the write succeeds on the inputs and
\* the file as they were at the start.
ParsedInputsEvaluate(path, command, saga) ==
    /\ path.ok
    /\ command.ok
    /\ saga.ok
    /\ query(saga.val.data, path.val).tag = "Query"
    /\ eval_query(command.val, query(saga.val.data, path.val).variant,
                  Deref(saga.val.data, query(saga.val.data, path.val).place)).outcome.ok

AllSucceeds ==
    /\ arg.before[arg.fp] # NoFile
    /\ ParsedInputsEvaluate(parse_to_int_path(arg.int_list),
                            Command_from_str(join(arg.command, <<" ">>)),
                            saga_deserialize(arg.before[arg.fp]))

\* C19: the edit subcommand writes the file at most once, and only when
\* path parsing, command parsing, reading, deserialization, the path query,
\* command evaluation and serialization have all succeeded; when one of
\* them fails the file keeps the content it had.
C19_EditIsTransaction ==
    [][/\ fs' # fs => (op = "serialized" /\ res.writes = 0 /\ AllSucceeds)
       /\ res'.writes <= 1
       /\ (op' = "failed" /\ res'.writes = 0) => fs' = arg.before]_vars

\* The edit has run to its end and the file holds another document than
\* before.
C19_Witness ==
    /\ op = "written"
    /\ res.writes = 1
    /\ fs # arg.before
    /\ saga_deserialize(fs[arg.fp]).ok

(***************************************************************************)
(* SpecBatch: the print and render subcommands over several files          *)
(* (main.rs, arg_print, arg_render, open_saga_docs).                       *)
(***************************************************************************)
\* The longest list of FILE arguments generated.
MaxBatch == 2

\* A file path: its stem and its extension, if it has one.
FilePath(stem, extension) == [stem |-> stem, extension |-> extension]

\* PathBuf::set_extension.
set_extension(path, extension) == [path EXCEPT !.extension = Some(extension)]

\* events.rs, padding: pad, n times over.
RECURSIVE padding(_, _)
padding(pad, n) == IF n = 0 THEN <<>> ELSE pad \o padding(pad, n - 1)

\* Event::print, verbose being false.
Event_print(self, pad) ==
    pad \o <<"<", "E", "v", "e", "n", "t", ">", " ">> \o self.name
        \o <<",", " ", "[">> \o Dates_fmt(self.datetime) \o <<"]">>

\* The first line of Node::print.
Node_print_start(self, pad) ==
    pad \o <<"<", "N", "o", "d", "e", ">", " ">> \o
    (IF IsSome(self.name) THEN Unwrap(self.name)
     ELSE <<"(", "N", "o", " ", "n", "a", "m", "e", ")">>)

\* Node::print, verbose being false: the node's line, then its children's,
\* one level deeper.
RECURSIVE Node_print(_, _)
Node_print(self, level) ==
    IF IsEvent(self) THEN Event_print(self, padding(<<" ", " ">>, level))
    ELSE join(<<Node_print_start(self, padding(<<" ", " ">>, level))>> \o
              [k \in 1..Len(self.children) |->
                  Node_print(self.children[k], level + 1)],
              <<"\n">>)

\* SagaDoc::print.
SagaDoc_print(self) == Node_print(self.data, 0)

\* The FILE arguments, and the files render writes for them.
BatchPaths == {FilePath("a", Some("json")), FilePath("b", None)}
SvgPaths == {set_extension(p, "svg") : p \in BatchPaths}

BatchTrees == Trees(1, {EvA}, {DefaultStyle, NamedStyle})

\* What a FILE may hold.
BatchFiles ==
    {NoFile, Garbage} \cup {saga_serialize(Blank(t)).val : t \in BatchTrees}

InitBatch ==
    /\ doc = <<>>
    /\ build = "release"
    /\ op = "init"
    /\ \E held \in [BatchPaths -> BatchFiles] :
          fs = [p \in BatchPaths \cup SvgPaths |->
                  IF p \in BatchPaths THEN held[p] ELSE NoFile]
    /\ \E sub \in {"print", "render"},
          files \in SeqsUpTo(BatchPaths, MaxBatch) \ {<<>>} :
          arg = [sub |-> sub, files |-> files, before |-> fs]
    /\ res = [error |-> None, out |-> <<>>]

\* open_saga_docs, up to the first try_collect: every file is read, and the
\* first that cannot be ends the subcommand.
BatchOpenFiles ==
    /\ op = "init"
    /\ LET read == try_collect([k \in 1..Len(arg.files) |->
                                   open_file(arg.files[k])])
       IN  IF read.ok
           THEN Went("read", [error |-> None, out |-> <<>>, contents |-> read.val])
           ELSE Failed(read.err)

\* open_saga_docs, the second try_collect: every content is deserialized,
\* and the first that is no SagaDoc ends the subcommand.
BatchDeserialize ==
    /\ op = "read"
    /\ LET docs == try_collect([k \in 1..Len(res.contents) |->
                                   saga_deserialize(res.contents[k])])
       IN  IF docs.ok
           THEN Went("docs", [error |-> None, out |-> <<>>, docs |-> docs.val])
           ELSE Failed(docs.err)

\* arg_print, one turn of the for_each.
PrintNext ==
    /\ op = "docs"
    /\ arg.sub = "print"
    /\ Len(res.out) < Len(arg.files)
    /\ res' = [res EXCEPT !.out =
                 Append(@, [fp |-> arg.files[Len(@) + 1], saved |-> TRUE,
                            text |-> SagaDoc_print(res.docs[Len(@) + 1])])]
    /\ UNCHANGED <<doc, build, op, arg, fs>>

\* arg_render, one turn of the loop: svg::save writes the drawing next to
\* the file, or fails, and its failure ends the subcommand.
RenderNext ==
    /\ op = "docs"
    /\ arg.sub = "render"
    /\ Len(res.out) < Len(arg.files)
    /\ \/ /\ fs' = [fs EXCEPT
                      ![set_extension(arg.files[Len(res.out) + 1], "svg")] =
                          [svg |-> draw(res.docs[Len(res.out) + 1])]]
          /\ res' = [res EXCEPT !.out =
                       Append(@, [fp |-> arg.files[Len(@) + 1], saved |-> TRUE])]
          /\ op' = op
       \/ /\ fs' \in {fs, [fs EXCEPT
                      ![set_extension(arg.files[Len(res.out) + 1], "svg")] =
                          Garbage]}
          /\ res' = [res EXCEPT !.error = Some("FileIO"), !.out =
                       Append(@, [fp |-> arg.files[Len(@) + 1], saved |-> FALSE])]
          /\ op' = "failed"
    /\ UNCHANGED <<doc, build, arg>>

\* Ok(()) after the last file.
BatchDone ==
    /\ op = "docs"
    /\ Len(res.out) = Len(arg.files)
    /\ op' = "done"
    /\ UNCHANGED <<doc, build, arg, res, fs>>

NextBatch ==
    \/ BatchOpenFiles
    \/ BatchDeserialize
    \/ PrintNext
    \/ RenderNext
    \/ BatchDone

SpecBatch == InitBatch /\ [][NextBatch]_vars

\* The file was readable and a valid document when the subcommand began.
ReadableAndValid(fp) ==
    /\ arg.before[fp] # NoFile
    /\ saga_deserialize(arg.before[fp]).ok

\* The subcommand came to print the file, or to save its drawing.
Reached(fp) == \E k \in 1..Len(res.out) : res.out[k].fp = fp

\* C20: when print or render has ended, every file of the batch that is
\* itself readable and valid has been printed (rendered, or at least its
\* drawing was attempted and its own write failed), whatever happened to
\* the other files.
C20_BestEffortBatch ==
    op \in {"done", "failed"} =>
        \A k \in 1..Len(arg.files) :
            ReadableAndValid(arg.files[k]) => Reached(arg.files[k])

\* The line of every node of the tree, in the order of iter_nodes.
NodeLines(root) ==
    [k \in 1..Len(iter_nodes(root)) |-> Deref(root, iter_nodes(root)[k]).line]

\* C21: the document read back from the file an edit has written has, node
\* for node, the line the edited document had: absent, present without
\* interval, or present with its interval.
C21_LineSurvivesRoundTrip ==
    op = "written" =>
        NodeLines(saga_deserialize(fs[arg.fp]).val.data) = NodeLines(doc.data)

(***************************************************************************)
(* SpecCat: the cat subcommand (main.rs, arg_catenate; saga.rs,            *)
(* SagaDoc::catenate).                                                     *)
(***************************************************************************)
\* f64::max, on numbers that are not NaN.
f64_max(a, b) == IF a[1] * b[2] >= b[1] * a[2] THEN a ELSE b

\* HashMap::drain into HashMap::insert: the keys of item added to those of
\* the map, the value of item kept for a key both hold.
Inserted(map, item) ==
    [k \in DOMAIN map \cup DOMAIN item |-> IF k \in DOMAIN item THEN item[k] ELSE map[k]]

\* The closure of catenate's for_each, applied to one item.
Absorb(acc, item) ==
    MkDoc(f64_max(acc.x, item.x), f64_max(acc.y, item.y),
          f64_max(acc.padding, item.padding),
          Inserted(acc.color_schemes, item.color_schemes), acc.data)

\* The for_each of catenate from the item at position k on.
RECURSIVE AbsorbFrom(_, _, _)
AbsorbFrom(acc, list, k) ==
    IF k > Len(list) THEN acc ELSE AbsorbFrom(Absorb(acc, list[k]), list, k + 1)

\* SagaDoc::catenate.
catenate(list) == AbsorbFrom(Blank(from_vec(<<>>)), list, 1)

\* DEST.
CatDest == FilePath("dest", Some("json"))

\* The documents the FILE arguments may hold: three sizes, with and without
\* an event.
CatDocs ==
    {MkDoc(F(size[1]), F(size[2]), F(size[3]), <<>>, from_vec(children)) :
        size \in {<<1280, 720, 5>>, <<1920, 1080, 0>>, <<2560, 1440, 10>>},
        children \in {<<>>, <<EvA>>, <<EvB, from_vec(<<EvA>>)>>}}

CatFiles == {NoFile, Garbage} \cup {saga_serialize(d).val : d \in CatDocs}

InitCat ==
    /\ doc = <<>>
    /\ build = "release"
    /\ op = "init"
    /\ \E held \in [BatchPaths -> CatFiles] :
          fs = [p \in BatchPaths \cup {CatDest} |->
                  IF p \in BatchPaths THEN held[p] ELSE NoFile]
    /\ \E files \in SeqsUpTo(BatchPaths, MaxBatch) \ {<<>>} :
          arg = [sub |-> "cat", files |-> files, dest |-> CatDest, before |-> fs]
    /\ res = [error |-> None, out |-> <<>>]

\* let doc = SagaDoc::catenate(saga_docs);
CatCatenate ==
    /\ op = "docs"
    /\ arg.sub = "cat"
    /\ op' = "catenated"
    /\ doc' = catenate(res.docs)
    /\ UNCHANGED <<build, arg, res, fs>>

\* let contents = saga_serialize(&doc)?;
CatSerialize ==
    /\ op = "catenated"
    /\ LET contents == saga_serialize(doc)
       IN  IF contents.ok
           THEN Went("serialized", [error |-> None, out |-> <<>>, docs |-> res.docs,
                                    contents |-> contents.val])
           ELSE Failed(contents.err)

\* write_to_file(dest, &contents)?;
CatWrite ==
    /\ op = "serialized"
    /\ \/ /\ op' = "done"
          /\ fs' = [fs EXCEPT ![arg.dest] = res.contents]
          /\ res' = res
       \/ /\ op' = "failed"
          /\ fs' \in {fs, [fs EXCEPT ![arg.dest] = Garbage]}
          /\ res' = [res EXCEPT !.error = Some("FileIO")]
    /\ UNCHANGED <<doc, build, arg>>

NextCat ==
    \/ BatchOpenFiles
    \/ BatchDeserialize
    \/ CatCatenate
    \/ CatSerialize
    \/ CatWrite

SpecCat == InitCat /\ [][NextCat]_vars

\* The greatest of the values field gives on the documents of the list.
RECURSIVE Greatest(_, _)
Greatest(list, field) ==
    IF Len(list) = 1 THEN list[1][field]
    ELSE f64_max(list[1][field], Greatest(Rest(list), field))

\* C22: the document catenate returns for a non-empty list has the greatest
\* x, the greatest y and the greatest padding of the documents of the list.
C22_CatenateTakesMaxima ==
    op = "catenated" =>
        /\ doc.x = Greatest(res.docs, "x")
        /\ doc.y = Greatest(res.docs, "y")
        /\ doc.padding = Greatest(res.docs, "padding")

\* The children of the roots of the documents of the list, one after the
\* other.
RECURSIVE RootsChildren(_)
RootsChildren(list) ==
    IF Len(list) = 0 THEN <<>>
    ELSE list[1].data.children \o RootsChildren(Rest(list))

\* C23: the root of the document catenate returns holds the children of the
\* roots of the documents of the list, in the order of the list.
C23_CatenateFlattensRoots ==
    op = "catenated" => doc.data.children = RootsChildren(res.docs)

\* C24: a parsed date command never carries a range whose end is before
\* its start.
C24_ParsedDatesAreOrdered ==
    (/\ op = "parse"
     /\ res.ok
     /\ res.val.cmd = "DateEdit"
     /\ IsSome(res.val.dates.end))
        => res.val.dates.start <= Unwrap(res.val.dates.end)

(***************************************************************************)
(* SpecAdd: SagaDoc::add_event on a generated document, with a generated   *)
(* path text and generated answers of the user.                            *)
(***************************************************************************)
\* enum SagaDocError, and the panic of query.
PathParse == [error |-> "PathParse"]
PathFind(fail) == [error |-> "PathFind", fail |-> fail]
AddToEvent == [error |-> "AddToEvent"]
DtParse == [error |-> "DtParse"]
IoError == [error |-> "IoError"]
Panicked == [error |-> "panic"]

\* Node::push.
push(self, value) == [self EXCEPT !.children = Append(@, value)]

\* Event::with_desc, for each description the user gives.
RECURSIVE with_descs(_, _)
with_descs(event, descs) ==
    IF Len(descs) = 0 THEN event
    ELSE with_descs([event EXCEPT !.descriptions = Append(@, trim_end(descs[1]))],
                    Rest(descs))

\* The event made of a name and parsed dates.
Made(name, dates, descs) ==
    IF dates.ok THEN Ok(with_descs(NewEvent(name, dates.val), descs))
    ELSE Err(DtParse)

\* input::make_event: the lines the user types are the name, the date and
\* the descriptions; stdin may fail instead.
make_event(input) ==
    IF ~input.stdin THEN Err(IoError)
    ELSE Made(trim_end(input.name), Dates_from_str(trim_end(input.date)),
              input.descriptions)

\* The Query::Node arm of add_event.
AddTo(self, place, made) ==
    IF made.ok
    THEN [outcome |-> Ok(<<>>),
          saga |-> [self EXCEPT !.data =
                      Replaced(self.data, place,
                               push(Deref(self.data, place), made.val))]]
    ELSE [outcome |-> made, saga |-> self]

\* The match of add_event on what query returned.
Added(self, found, input) ==
    IF found.tag = "Panic" THEN [outcome |-> Err(Panicked), saga |-> self]
    ELSE IF found.tag = "PathFail"
    THEN [outcome |-> Err(PathFind(found)), saga |-> self]
    ELSE IF found.variant = "Node" THEN AddTo(self, found.place, make_event(input))
    ELSE [outcome |-> Err(AddToEvent), saga |-> self]

\* add_event once the path text is parsed.
AddParsed(self, path, input) ==
    IF path.ok THEN Added(self, query(self.data, path.val), input)
    ELSE [outcome |-> Err(PathParse), saga |-> self]

\* SagaDoc::add_event: the outcome and the document afterwards.
add_event(self, query_text, input) ==
    AddParsed(self, parse_to_int_path(query_text), input)

\* INT_LIST as typed.
AddPaths ==
    {<<>>, <<"1">>, <<"2">>, <<"3">>, <<"0">>, <<"x">>,
     <<"1", ":", "1">>, <<"1", ":", " ", "2">>, <<"1", ":", "0">>}

\* The answers of the user.
AddInputs ==
    {[stdin |-> on, name |-> <<"N", "\n">>, date |-> date \o <<"\n">>,
      descriptions |-> descs] :
        on \in BOOLEAN,
        date \in {Word_1_1_1990 \o <<" ">> \o Word_0_0,
                  Word_1_1_1990 \o <<" ">> \o Word_0_0 \o <<" ", "-", " ">>
                      \o Word_1_1_1991 \o <<" ">> \o Word_0_0,
                  Word_hello},
        descs \in {<<>>, <<Word_booty \o <<"\n">>>>}}

InitAdd ==
    /\ doc \in {Blank(t) : t \in EvalTrees}
    /\ build \in {"debug", "release"}
    /\ op = "init"
    /\ arg = <<>>
    /\ res = <<>>
    /\ fs = <<>>

\* saga.add_event(&query)
AddEvent(query_text, input) ==
    /\ op = "init"
    /\ op' = "add"
    /\ arg' = [query |-> query_text, input |-> input, before |-> doc]
    /\ res' = add_event(doc, query_text, input).outcome
    /\ doc' = add_event(doc, query_text, input).saga
    /\ UNCHANGED <<build, fs>>

NextAdd == \E query_text \in AddPaths, input \in AddInputs : AddEvent(query_text, input)

SpecAdd == InitAdd /\ [][NextAdd]_vars

\* The path of the add, when its text is one.
AddPath == parse_to_int_path(arg.query).val

\* The node the path of the add named before the add, and what it names
\* afterwards.
TargetBefore == Deref(arg.before.data, ZeroBased(AddPath))
TargetAfter == Deref(doc.data, ZeroBased(AddPath))

\* The add appended one Event to the target and changed nothing else.
AppendedLast ==
    /\ res = Ok(<<>>)
    /\ Len(TargetAfter.children) = Len(TargetBefore.children) + 1
    /\ SubSeq(TargetAfter.children, 1, Len(TargetBefore.children))
          = TargetBefore.children
    /\ IsEvent(TargetAfter.children[Len(TargetAfter.children)])
    /\ doc = [arg.before EXCEPT !.data =
                 Replaced(arg.before.data, ZeroBased(AddPath), TargetAfter)]
    /\ query(doc.data, AddPath \o <<Len(TargetBefore.children) + 1>>)
          = QueryOk("Event", ZeroBased(AddPath) \o <<Len(TargetBefore.children)>>)

\* C25: add_event with a path that addresses a Node appends the event the
\* user made as that node's last child and changes nothing else; with a
\* path that addresses an Event it fails with AddToEvent, with an invalid
\* path it fails with a path-find error, and both leave the document as it
\* was.
C25_AddEventAppends ==
    (op = "add" /\ parse_to_int_path(arg.query).ok) =>
        IF ~ValidPath(arg.before.data, AddPath)
        THEN ~res.ok /\ res.err.error = "PathFind" /\ doc = arg.before
        ELSE IF IsEvent(TargetBefore)
        THEN res = Err(AddToEvent) /\ doc = arg.before
        ELSE make_event(arg.input).ok => AppendedLast

\* The lookup, every step before being valid, reaches a step whose index
\* is 0.
RECURSIVE ZeroStep(_, _)
ZeroStep(n, path) ==
    /\ Len(path) > 0
    /\ \/ path[1] = 0
       \/ /\ 1 <= path[1]
          /\ path[1] <= Len(n.children)
          /\ IsNode(n.children[path[1]])
          /\ ZeroStep(n.children[path[1]], Rest(path))

\* C26: query returns PathFail when the lookup reaches an index that is 0:
\* the decrement of that index neither aborts the program nor makes the
\* lookup address a child.
C26_QueryIndexZeroFails ==
    (op = "query" /\ ZeroStep(doc.data, arg)) => res.tag = "PathFail"

\* C27: when lines is given the range of the whole tree, the Line of a
\* Node that holds events starts and ends where the range of that node's
\* own events starts and ends within the range given.
C27_LineSpansOwnRange ==
    (op = "lines" /\ arg = range(doc.data) /\ arg[2] - arg[1] # 0) =>
        LET nodes == Preorder(NodePlaces(doc.data))
            Lined(k) == IsSome(Deref(doc.data, nodes[k]).line)
            at == SelectSeq([k \in 1..Len(nodes) |-> k], Lined)
        IN  \A j \in 1..Len(at) :
                ~is_empty(Deref(doc.data, nodes[at[j]])) =>
                    /\ res[j].start =
                          FDiv(F(range(Deref(doc.data, nodes[at[j]]))[1] - arg[1]),
                               F(arg[2] - arg[1]))
                    /\ res[j].end =
                          FDiv(F(range(Deref(doc.data, nodes[at[j]]))[2] - arg[1]),
                               F(arg[2] - arg[1]))

\* C28: DescAdd and DescEdit without a tail, evaluated on an Event, return
\* Ok and leave the event and the rest of the document as they were,
\* whatever the index, one past the last description included.
C28_NoTailChangesNothing ==
    (/\ EvaluatedOn("Event")
     /\ arg.command.cmd \in {"DescAdd", "DescEdit"}
     /\ ~IsSome(arg.command.text)) =>
        /\ res.outcome = OkUnit
        /\ doc = arg.before

\* DescEdit without a tail and with the index 2 has been evaluated on an
\* event with two descriptions.
C28_Witness ==
    /\ EvaluatedOn("Event")
    /\ arg.command.cmd = "DescEdit"
    /\ ~IsSome(arg.command.text)
    /\ arg.command.index = 2
    /\ Len(Deref(arg.before.data, res.query.place).descriptions) = 2
    /\ res.outcome = OkUnit

====
